---- MODULE Spec2Model ----
(***************************************************************************)
(* A model of cbtools-autobench: the benchmark iteration loop of the       *)
(* backup client (nodes.BackupClient, driven by cmd.benchmark), the        *)
(* cluster orchestration (nodes.Cluster) with its fan-out over a worker    *)
(* pool, the dataset load, and poll with the two operations that wait on   *)
(* it.                                                                     *)
(*                                                                         *)
(* The specifications of the module:                                       *)
(*   SpecBench     cmd.benchmark -> BenchmarkBackup / BenchmarkRestore     *)
(*   SpecCluster   Cluster.Provision and the single fan-out phases         *)
(*   SpecLoad      Cluster.loadData: the shares and the load units         *)
(*   SpecPoll      poll, Cluster.CollectLogs, Cluster.compactBucket        *)
(*   SpecPollFair  SpecPoll with the fairness of the scheduler and select  *)
(*   SpecRate      value.BenchmarkResult: the average transfer rates       *)
(*   SpecProvision cmd.provision: the provisioners, then Cluster.LoadData  *)
(*   SpecNode      Cluster.provisionNode and Node.provision on one node    *)
(*   SpecTasks     Cluster.compactionComplete over a task list             *)
(*   SpecCommand   value.NewCommand                                        *)
(*   SpecLoadFair  SpecLoad with the fairness of the scheduler             *)
(*   SpecConnect   nodes.NewCluster: the connect units                     *)
(*   SpecLogs      Cluster.downloadLogs and the list CollectLogs returns   *)
(*   SpecTrim      ssh.trimPort                                            *)
(* Each specification leaves the variables of the others untouched.        *)
(***************************************************************************)
EXTENDS Integers, Sequences, FiniteSets, Bags, TLC

VARIABLES
    \* ---- cmd.benchmark and the BackupClient benchmark loop
    bKind,        \* args[0]: "backup" or "restore"
    Iterations,   \* config.Iterations (an int: may be zero or negative)
    Blackhole,    \* config.CBMConfig.Blackhole
    bpc,          \* position of the benchmark command
    iteration,    \* loop variable of the for loop (0-based)
    results,      \* the local slice "results"; "unallocated" before make
    bSteps,       \* remote steps executed so far in the current iteration
    repo,         \* number of backups held by the backup repository
    ctxErr,       \* ctx.Err() != nil: the cancellation signal is set
    cancelAt,     \* where the signal was set: [iter, pc, started], iter = 0
                  \* outside the loop body, started as it was then
    started,      \* number of iterations whose body has been entered
    bRet,         \* what Benchmark{Backup,Restore} returned
    cmdRet,       \* what cmd.benchmark returned
    report,       \* the results handed to report.NewReport, "none" before
    backupCmds,   \* the backup commands issued so far, in order
    timedSteps,   \* remote steps of the current iteration run under its timer
    durations,    \* per appended result, the steps its Duration covers
    sigStream,    \* number of signals held by signalStream (capacity one)
    sigNotify,    \* signal.Notify is in force for signalStream
    sigpc,        \* position of the goroutine of signalHandler
    sigints,      \* number of SIGINTs sent to the process so far
    cancels       \* number of calls of cancelFunc so far

benchVars == <<bKind, Iterations, Blackhole, bpc, iteration, results, bSteps,
               repo, ctxErr, cancelAt, started, bRet, cmdRet, report,
               backupCmds, timedSteps, durations, sigStream, sigNotify,
               sigpc, sigints, cancels>>

\* the variables of signalHandler
sigVars == <<sigStream, sigNotify, sigpc, sigints, cancels>>

VARIABLES
    \* ---- nodes.Cluster: the orchestrator and its fan-out over the pool
    nodesN,       \* len(c.nodes); the nodes are 1..nodesN, nodes[0] is node 1
    NumCPU,       \* system.NumCPU()
    op,           \* the Cluster operation that was called
    DeveloperPreview, \* c.blueprint.DeveloperPreview
    LimitVB,      \* c.blueprint.Bucket.VBuckets is neither 0 nor 1024
    opi,          \* index of the current statement of the operation
    lpc,          \* "running" while a command on nodes[0] is in flight
    leaderLog,    \* the leader commands that returned without error, in order
    opRet,        \* "running", "nil" or the statement that failed
    fpc,          \* forEachNode: "idle", "loop", "stop" (in pool.Stop), "ret"
    fi,           \* forEachNode: index of the next node of the range loop
    fkind,        \* forEachNode: the function handed over
    unit,         \* per node, the state of its work unit
    poolErr,      \* the error the pool recorded (0: none; n: the unit of node n)
    errOrder,     \* the nodes whose units returned an error, in that order
    fret,         \* what forEachNode returned (-1: not yet; 0: nil; n: error)
    recv,         \* per connection, the commands issued over it in this fan-out
    issued        \* the bag of commands the operation has issued so far

clusterVars == <<nodesN, NumCPU, op, DeveloperPreview, LimitVB, opi, lpc,
                 leaderLog, opRet, fpc, fi, fkind, unit, poolErr, errOrder,
                 fret, recv, issued>>

VARIABLES
    \* ---- Cluster.loadData: the shares handed to the load units
    ldN,          \* len(c.nodes)
    ldItems,      \* c.blueprint.Bucket.Data.Items
    DataLoader,   \* c.blueprint.Bucket.Data.DataLoader
    ldpc,         \* position in loadData
    ldi,          \* loop variable i of the first loop
    items,        \* the buffered channel "items", oldest first
    ldRet,        \* "running", or what loadData returned
    ldCPU,        \* system.NumCPU()
    ldfi,         \* forEachNode: index of the next node of the range loop
    ldUnit,       \* per node, the state of its load unit and the share it got
    ldPoolErr     \* the error the pool recorded (0: none; n: the unit of node n)

loadVars == <<ldN, ldItems, DataLoader, ldpc, ldi, items, ldRet, ldCPU, ldfi,
              ldUnit, ldPoolErr>>

VARIABLES
    \* ---- poll and its callers Cluster.CollectLogs and Cluster.compactBucket
    caller,       \* "CollectLogs" or "compactBucket"
    pTimeout,     \* the timeout handed to poll, in seconds
    predReadyAt,  \* second from which the remote state is complete; -1: never
    predMayFail,  \* the remote status command may fail (e.g. host unreachable)
    ppc,          \* position of the caller and of poll
    now,          \* seconds since poll created its context and its ticker
    tickPending,  \* ticker.C holds a tick (the channel buffers one)
    evals,        \* number of calls of pollFunc so far
    ticksTaken,   \* number of ticks received from ticker.C so far
    firstEvalAt,  \* value of now at the first call of pollFunc; -1 before
    sawReady,     \* a call of pollFunc returned true
    errAt,        \* the call of pollFunc that returned an error; 0: none
    remoteFail,   \* a remote status command failed
    pRet,         \* what poll returned
    enumerated,   \* CollectLogs asked the leader for the archive paths
    downloaded,   \* CollectLogs started the download of the archives
    cRet          \* "running", or what the caller returned

pollVars == <<caller, pTimeout, predReadyAt, predMayFail, ppc, now,
              tickPending, evals, ticksTaken, firstEvalAt, sawReady, errAt,
              remoteFail, pRet, enumerated, downloaded, cRet>>


VARIABLES
    \* ---- value.BenchmarkResult: the average transfer rates
    rDuration,    \* b.Duration as [sec, nsec]: Duration / Second, Duration % Second
    rADS,         \* b.ADS
    rSize,        \* blueprint.Size
    rItems,       \* blueprint.Items
    rpc,          \* "ads", "gds", "done"
    rOutADS,      \* what AvgTransferRateADS returned; -1 before
    rOutGDS       \* what AvgTransferRateGDS returned; -1 before

rateVars == <<rDuration, rADS, rSize, rItems, rpc, rOutADS, rOutGDS>>


VARIABLES
    \* ---- cmd.provision and Cluster.LoadData
    loadOnly,     \* provisionOptions.loadOnly
    compact,      \* config.Blueprint.Cluster.Bucket.Compact
    vpc,          \* position of the provision command
    vqi,          \* index of the next provisioner of the range loop
    vUnit,        \* state of the Provision unit of the cluster (1), the client (2)
    vPoolErr,     \* the error the pool recorded (0: none; n: unit n)
    vLog,         \* the steps of LoadData executed so far, in order
    evict,        \* the eviction percentage set on nodes[0]
    vRet          \* "running", or what the provision command returned

provVars == <<loadOnly, compact, vpc, vqi, vUnit, vPoolErr, vLog, evict, vRet>>

\* the variables of Cluster.provisionNode and Node.provision on one node
VARIABLES
    pkgInstalled, \* the remote host has the couchbase-server package installed
    installDir,   \* value.CBInstallDirectory exists on the remote host
    archive,      \* the package archive is on the remote host
    DataPath,     \* n.blueprint.DataPath != ""
    npc,          \* the step provisionNode is about to run, "ret" after it
    nLog,         \* the steps run so far, each with whether it succeeded
    nRet          \* "running", "nil" or the step whose error was returned

nodeVars == <<pkgInstalled, installDir, archive, DataPath, npc, nLog, nRet>>

\* the variables of Cluster.compactionComplete
VARIABLES
    decoded,      \* the task list unmarshalled from /pools/default/tasks
    ccpc,         \* "call" before compactionComplete ran, "ret" after
    ccRet         \* what compactionComplete returned: [ok, err]

taskVars == <<decoded, ccpc, ccRet>>

\* the variables of value.NewCommand
VARIABLES
    format,       \* the format template, a sequence of characters and verbs
    args,         \* the arguments: none, or one string
    cpc,          \* "call", "made" after NewCommand, "again" after a re-strip
    command,      \* the Command that NewCommand returned
    restripped    \* command with the three replacements applied once more

cmdVars == <<format, args, cpc, command, restripped>>

\* the variables of nodes.NewCluster
VARIABLES
    cnN,          \* len(blueprint.Nodes)
    cnCPU,        \* system.NumCPU()
    cnpc,         \* "loop", "stop" (in pool.Stop), "ret"
    idx,          \* index of the next element of the range loop, from 1
    cnUnit,       \* per index, the state of its connect unit
    nodes,        \* the slice nodes: per index 0 (nil) or the host connected to
    cnPoolErr,    \* the error the pool recorded (0: none; n: the unit of n)
    cnRet         \* "running", "cluster" or "error"

connVars == <<cnN, cnCPU, cnpc, idx, cnUnit, nodes, cnPoolErr, cnRet>>

\* the variables of Cluster.downloadLogs and the return of CollectLogs
VARIABLES
    lgN,          \* len(c.nodes)
    lgCPU,        \* system.NumCPU()
    logPaths,     \* the number of paths collectionPaths returned
    existsOn,     \* per path, the nodes on which the archive exists
    lgpc,         \* "call" (forEachNode), "loop", "stop", "ret"
    source,       \* index of the path the range loop of downloadLogs is at
    lgfi,         \* forEachNode: index of the next node of the range loop
    lgUnit,       \* per node, the state of its unit for the current path
    lgPoolErr,    \* the error the pool recorded (0: none; n: the unit of n)
    sink,         \* the paths whose archive was downloaded into the directory
    converted,    \* the list CollectLogs returned
    lgRet         \* "running", "nil" or "failed to download logs"

logVars == <<lgN, lgCPU, logPaths, existsOn, lgpc, source, lgfi, lgUnit,
             lgPoolErr, sink, converted, lgRet>>

\* the variables of ssh.trimPort
VARIABLES
    addr,         \* the argument s, a sequence of characters
    trpc,         \* "call" before trimPort ran, "ret" after
    trRet         \* [kind, value]: kind "ret" with the string returned, or
                  \* "panic"

trimVars == <<addr, trpc, trRet>>

\* the variables of the fan-out of loadData
ldFanVars == <<ldCPU, ldfi, ldUnit, ldPoolErr>>

\* the variables a specification leaves alone
notBench == <<clusterVars, loadVars, pollVars, rateVars, provVars, nodeVars, taskVars, cmdVars, connVars, logVars, trimVars>>
notCluster == <<benchVars, loadVars, pollVars, rateVars, provVars, nodeVars, taskVars, cmdVars, connVars, logVars, trimVars>>
notLoad == <<benchVars, clusterVars, pollVars, rateVars, provVars, nodeVars, taskVars, cmdVars, connVars, logVars, trimVars>>
notPoll == <<benchVars, clusterVars, loadVars, rateVars, provVars, nodeVars, taskVars, cmdVars, connVars, logVars, trimVars>>
notRate == <<benchVars, clusterVars, loadVars, pollVars, provVars, nodeVars, taskVars, cmdVars, connVars, logVars, trimVars>>
notProv == <<benchVars, clusterVars, loadVars, pollVars, rateVars, nodeVars, taskVars, cmdVars, connVars, logVars, trimVars>>
notNode == <<benchVars, clusterVars, loadVars, pollVars, rateVars, provVars, taskVars, cmdVars, connVars, logVars, trimVars>>
notTask == <<benchVars, clusterVars, loadVars, pollVars, rateVars, provVars, nodeVars, cmdVars, connVars, logVars, trimVars>>
notCmd == <<benchVars, clusterVars, loadVars, pollVars, rateVars, provVars, nodeVars, taskVars, connVars, logVars, trimVars>>
notConn == <<benchVars, clusterVars, loadVars, pollVars, rateVars, provVars, nodeVars, taskVars, cmdVars, logVars, trimVars>>
notLog == <<benchVars, clusterVars, loadVars, pollVars, rateVars, provVars, nodeVars, taskVars, cmdVars, connVars, trimVars>>
notTrim == <<benchVars, clusterVars, loadVars, pollVars, rateVars, provVars, nodeVars, taskVars, cmdVars, connVars, logVars>>

vars == <<benchVars, clusterVars, loadVars, pollVars, rateVars, provVars, nodeVars, taskVars, cmdVars, connVars, logVars, trimVars>>

----------------------------------------------------------------------------
(* Bounds of the model *)

MaxIterations == 3
MaxNodes == 3
MaxCPU == 3
MaxItems == 12
MaxTimeout == 35
MaxSeconds == 3
MaxSize == 4
MaxSigints == 2
MaxTasks == 3
MaxFormatLen == 3
MaxArgLen == 2
MaxLogNodes == 2
MaxPaths == 2
MaxHostLen == 4

----------------------------------------------------------------------------
(* Helpers *)

\* the Go builtin max on two ints, src/nodes/cluster.go:847
max(a, b) == IF a >= b THEN a ELSE b

\* no report has been built
NoReport == [built |-> FALSE, results |-> <<>>, count |-> 0, rundown |-> <<>>]

\* the sequence <<1, ..., k>>
UpTo(k) == [i \in 1..k |-> i]

\* Return values of Benchmark{Backup,Restore}. kind is "none" while the call
\* runs, "ret" once it returned and "panic" when the goroutine panicked. A nil
\* slice is the empty sequence; err is "nil" or the name of the failed step.
NoRet == [kind |-> "none", results |-> <<>>, err |-> "nil"]

\* the statements of the loop body, from the top of the body to the check of
\* the context, src/nodes/cluster.go:847-861 and 890-911
BodyPcs == {"flushBucket", "clusterPre", "clientPre", "backup", "sync", "info",
            "purgeInfo", "remove", "restore", "append", "ctxCheck"}

\* the loop body is executing (createBackup is also called during the set-up
\* of BenchmarkRestore, before the slice is made)
InBody == bpc \in BodyPcs /\ results.allocated

----------------------------------------------------------------------------
(* cmd.benchmark, BenchmarkBackup, BenchmarkRestore *)

\* FailReturn with the completed results handed back beside the error
FailReturnPartial(step) ==
    [kind |-> "ret", results |-> results.items, err |-> step]

\* return nil, errors.Wrap(err, ...): every failure path of BenchmarkBackup
\* and BenchmarkRestore
FailReturn(step) == [kind |-> "ret", results |-> <<>>, err |-> step]

\* The statements run between start := time.Now() and the deferred
\* result.Duration = time.Since(start): the whole of benchmarkBackup and of
\* benchmarkRestore
TimedPcs ==
    IF bKind = "backup"
    THEN {"clusterPre", "clientPre", "backup", "sync", "info", "purgeInfo",
          "remove"}
    ELSE {"clusterPre", "clientPre", "restore"}

\* CommandBackup adding the sink flag whatever ignoreBlackhole says
CommandBackupKeepBlackhole(ignoreBlackhole) ==
    [cmd |-> "backup", blackhole |-> Blackhole]

\* CBMConfig.CommandBackup(host, ignoreBlackhole): addBlackhole is applied
\* unless ignoreBlackhole, and adds --sink blackhole when c.Blackhole
CommandBackup(ignoreBlackhole) ==
    [cmd |-> "backup", blackhole |-> (~ignoreBlackhole /\ Blackhole)]

\* the ignoreBlackhole argument of createBackup: true in the set-up of
\* BenchmarkRestore, false in benchmarkBackup
IgnoreBlackhole == bKind = "restore"

\* bound of the for loop without the minimum of one
LoopBoundNoMin == Iterations

\* bound of the for loop
LoopBound == max(1, Iterations)

\* A remote step: the command is issued and runs to its end, then either
\* succeeds (control moves to next) or fails (the benchmark returns nil, err).
Exec(step, next) ==
    /\ bSteps' = Append(bSteps, step)
    /\ timedSteps' = IF bpc \in TimedPcs THEN Append(timedSteps, step)
                     ELSE timedSteps
    /\ \E ok \in BOOLEAN :
          IF ok
          THEN bpc' = next /\ bRet' = bRet
          ELSE bpc' = "cmdCheck" /\ bRet' = FailReturn(step)

\* no transfer rate is being computed
RateIdle ==
    /\ rDuration = [sec |-> 0, nsec |-> 0] /\ rADS = 0 /\ rSize = 0
    /\ rItems = 0 /\ rpc = "done" /\ rOutADS = -1 /\ rOutGDS = -1


\* the provision command is not running
ProvIdle ==
    /\ loadOnly = FALSE /\ compact = FALSE /\ vpc = "exit" /\ vqi = 1
    /\ vUnit = [n \in 1..2 |-> "none"] /\ vPoolErr = 0 /\ vLog = <<>>
    /\ evict = 30 /\ vRet = "nil"

\* provisionNode is not running
NodeIdle ==
    /\ pkgInstalled = FALSE /\ installDir = FALSE /\ archive = FALSE
    /\ DataPath = FALSE /\ npc = "ret" /\ nLog = <<>> /\ nRet = "nil"

\* compactionComplete is not running
TaskIdle ==
    /\ decoded = <<>> /\ ccpc = "ret" /\ ccRet = [ok |-> FALSE, err |-> "nil"]

\* NewCommand is not running
CmdIdle ==
    /\ format = <<>> /\ args = <<>> /\ cpc = "again"
    /\ command = <<>> /\ restripped = <<>>

\* NewCluster is not running
ConnIdle ==
    /\ cnN = 1 /\ cnCPU = 1 /\ cnpc = "ret" /\ idx = 1
    /\ cnUnit = [n \in 1..1 |-> "none"] /\ nodes = [n \in 1..1 |-> 0]
    /\ cnPoolErr = 0 /\ cnRet = "error"

\* downloadLogs is not running
LogIdle ==
    /\ lgN = 1 /\ lgCPU = 1 /\ logPaths = 1 /\ existsOn = [p \in 1..1 |-> {}]
    /\ lgpc = "ret" /\ source = 1 /\ lgfi = 1
    /\ lgUnit = [n \in 1..1 |-> "none"] /\ lgPoolErr = 0
    /\ sink = {} /\ converted = <<>> /\ lgRet = "nil"

\* trimPort is not running
TrimIdle ==
    /\ addr = <<>> /\ trpc = "ret" /\ trRet = [kind |-> "ret", value |-> <<>>]

\* what poll has not returned yet
NoPollRet == [set |-> FALSE, timedOut |-> FALSE, err |-> "nil"]

\* poll and its callers are not running
PollIdle ==
    /\ caller = "none" /\ pTimeout = 0 /\ predReadyAt = -1
    /\ predMayFail = FALSE /\ ppc = "done" /\ now = 0
    /\ tickPending = FALSE /\ evals = 0 /\ ticksTaken = 0
    /\ firstEvalAt = -1 /\ sawReady = FALSE /\ errAt = 0
    /\ remoteFail = FALSE /\ pRet = NoPollRet
    /\ enumerated = FALSE /\ downloaded = FALSE /\ cRet = "nil"

\* loadData is not running
LoadIdle ==
    /\ ldN = 1 /\ ldItems = 0 /\ DataLoader = "cbm"
    /\ ldpc = "done" /\ ldi = 0 /\ items = <<>> /\ ldRet = "nil"
    /\ ldCPU = 1 /\ ldfi = 1 /\ ldPoolErr = 0
    /\ ldUnit = [n \in 1..1 |-> [st |-> "none", share |-> -1]]

\* the cluster operations are not running
ClusterIdle ==
    /\ nodesN = 1 /\ NumCPU = 1 /\ op = "none"
    /\ DeveloperPreview = FALSE /\ LimitVB = FALSE
    /\ opi = 1 /\ lpc = "idle" /\ leaderLog = <<>> /\ opRet = "nil"
    /\ fpc = "idle" /\ fi = 1 /\ fkind = "none"
    /\ unit = [n \in 1..1 |-> [st |-> "none", step |-> 0]]
    /\ poolErr = 0 /\ errOrder = <<>> /\ fret = -1
    /\ recv = [n \in 1..1 |-> 0]
    /\ issued = EmptyBag

BInit ==
    /\ TrimIdle
    /\ LogIdle
    /\ ConnIdle
    /\ CmdIdle
    /\ TaskIdle
    /\ NodeIdle
    /\ ProvIdle
    /\ RateIdle
    /\ ClusterIdle
    /\ LoadIdle
    /\ PollIdle
    /\ bKind \in {"backup", "restore"}
    /\ Iterations \in (-1)..MaxIterations
    /\ Blackhole \in BOOLEAN
    /\ bpc = "purgeArchive"
    /\ iteration = 0
    /\ results = [allocated |-> FALSE, items |-> <<>>]
    /\ bSteps = <<>>
    /\ repo \in 0..1
    /\ ctxErr = FALSE
    /\ cancelAt = [iter |-> 0, pc |-> "never", started |-> 0]
    /\ started = 0
    /\ bRet = NoRet
    /\ cmdRet = "running"
    /\ report = NoReport
    /\ backupCmds = <<>>
    /\ timedSteps = <<>>
    /\ durations = <<>>
    /\ sigStream = 0
    /\ sigNotify = TRUE
    /\ sigpc = "recv"
    /\ sigints = 0
    /\ cancels = 0

\* b.purgeArchive(config): the whole archive is removed
PurgeArchive ==
    /\ bpc = "purgeArchive"
    /\ Exec("purgeArchive", "createRepository")
    /\ repo' = IF bpc' = "createRepository" THEN 0 ELSE repo
    /\ UNCHANGED notBench
    /\ UNCHANGED sigVars
    /\ UNCHANGED <<bKind, Iterations, Blackhole, backupCmds, durations,
                   iteration, results, ctxErr,
                   cancelAt, started, cmdRet, report>>

\* b.createRepository(config); BenchmarkRestore goes on to createBackup
CreateRepository ==
    /\ bpc = "createRepository"
    /\ Exec("createRepository", IF bKind = "backup" THEN "make" ELSE "backup")
    /\ UNCHANGED notBench
    /\ UNCHANGED sigVars
    /\ UNCHANGED <<bKind, Iterations, Blackhole, backupCmds, durations,
                   iteration, results, repo,
                   ctxErr, cancelAt, started, cmdRet, report>>

\* createBackup, the backup command
BackupCommand ==
    /\ bpc = "backup"
    /\ Exec("backup", "sync")
    /\ repo' = IF bpc' = "sync" THEN repo + 1 ELSE repo
    /\ backupCmds' = Append(backupCmds,
                            [iter |-> IF InBody THEN iteration + 1 ELSE 0,
                             blackhole |-> CommandBackup(IgnoreBlackhole).blackhole,
                             timed |-> bpc \in TimedPcs])
    /\ UNCHANGED notBench
    /\ UNCHANGED sigVars
    /\ UNCHANGED <<bKind, Iterations, Blackhole, durations, iteration, results, ctxErr,
                   cancelAt, started, cmdRet, report>>

\* createBackup, b.node.client.Sync()
BackupSync ==
    /\ bpc = "sync"
    /\ Exec("sync", "info")
    /\ UNCHANGED notBench
    /\ UNCHANGED sigVars
    /\ UNCHANGED <<bKind, Iterations, Blackhole, backupCmds, durations,
                   iteration, results, repo,
                   ctxErr, cancelAt, started, cmdRet, report>>

\* createBackup, the info query; the caller is the set-up of BenchmarkRestore
\* (the slice is not made yet) or benchmarkBackup (which purges next)
BackupInfo ==
    /\ bpc = "info"
    /\ Exec("info", IF results.allocated THEN "purgeInfo" ELSE "make")
    /\ UNCHANGED notBench
    /\ UNCHANGED sigVars
    /\ UNCHANGED <<bKind, Iterations, Blackhole, backupCmds, durations,
                   iteration, results, repo,
                   ctxErr, cancelAt, started, cmdRet, report>>

\* results := make(value.BenchmarkResults, 0, config.Iterations): a negative
\* capacity is a run-time panic (makeslice: cap out of range)
MakeResults ==
    /\ bpc = "make"
    /\ IF Iterations < 0
       THEN /\ bpc' = "panicked"
            /\ bRet' = [kind |-> "panic", results |-> <<>>, err |-> "nil"]
            /\ results' = results
       ELSE /\ bpc' = "loop"
            /\ bRet' = bRet
            /\ results' = [allocated |-> TRUE, items |-> <<>>]
    /\ UNCHANGED notBench
    /\ UNCHANGED sigVars
    /\ UNCHANGED <<bKind, Iterations, Blackhole, backupCmds, durations,
                   iteration, bSteps, timedSteps, repo,
                   ctxErr, cancelAt, started, cmdRet, report>>

\* LoopCond with the context looked at before an iteration is entered
LoopCondChecksCtx ==
    /\ bpc = "loop"
    /\ IF iteration < LoopBound /\ ~ctxErr
       THEN /\ bpc' = IF bKind = "backup" THEN "clusterPre"
                      ELSE IF ~Blackhole THEN "flushBucket" ELSE "clusterPre"
            /\ started' = started + 1
            /\ bSteps' = <<>>
            /\ timedSteps' = <<>>
            /\ bRet' = bRet
       ELSE /\ bpc' = "cmdCheck"
            /\ bRet' = [kind |-> "ret", results |-> results.items, err |-> "nil"]
            /\ UNCHANGED <<started, bSteps, timedSteps>>
    /\ UNCHANGED notBench
    /\ UNCHANGED sigVars
    /\ UNCHANGED <<bKind, Iterations, Blackhole, backupCmds, durations,
                   iteration, results, repo,
                   ctxErr, cancelAt, cmdRet, report>>

\* LoopCond with the bucket flushed in every restore iteration, Blackhole or
\* not
LoopCondAlwaysFlush ==
    /\ bpc = "loop"
    /\ IF iteration < LoopBound
       THEN /\ bpc' = IF bKind = "backup" THEN "clusterPre" ELSE "flushBucket"
            /\ started' = started + 1
            /\ bSteps' = <<>>
            /\ timedSteps' = <<>>
            /\ bRet' = bRet
       ELSE /\ bpc' = "cmdCheck"
            /\ bRet' = [kind |-> "ret", results |-> results.items, err |-> "nil"]
            /\ UNCHANGED <<started, bSteps, timedSteps>>
    /\ UNCHANGED notBench
    /\ UNCHANGED sigVars
    /\ UNCHANGED <<bKind, Iterations, Blackhole, backupCmds, durations,
                   iteration, results, repo,
                   ctxErr, cancelAt, cmdRet, report>>

\* for ...; iteration < max(1, config.Iterations); ...: enter the body or
\* leave the loop and return results, nil
LoopCond ==
    /\ bpc = "loop"
    /\ IF iteration < LoopBound
       THEN /\ bpc' = IF bKind = "backup" THEN "clusterPre"
                      ELSE IF ~Blackhole THEN "flushBucket" ELSE "clusterPre"
            /\ started' = started + 1
            /\ bSteps' = <<>>
            /\ timedSteps' = <<>>
            /\ bRet' = bRet
       ELSE /\ bpc' = "cmdCheck"
            /\ bRet' = [kind |-> "ret", results |-> results.items, err |-> "nil"]
            /\ UNCHANGED <<started, bSteps, timedSteps>>
    /\ UNCHANGED notBench
    /\ UNCHANGED sigVars
    /\ UNCHANGED <<bKind, Iterations, Blackhole, backupCmds, durations,
                   iteration, results, repo,
                   ctxErr, cancelAt, cmdRet, report>>

\* BenchmarkRestore: cluster.flushBucket() unless Blackhole
FlushBucket ==
    /\ bpc = "flushBucket"
    /\ Exec("flushBucket", "clusterPre")
    /\ UNCHANGED notBench
    /\ UNCHANGED sigVars
    /\ UNCHANGED <<bKind, Iterations, Blackhole, backupCmds, durations,
                   iteration, results, repo,
                   ctxErr, cancelAt, started, cmdRet, report>>

\* ClusterPreTasks followed at once by the operation under test
ClusterPreTasksOnly ==
    /\ bpc = "clusterPre"
    /\ Exec("clusterFlushCaches", bKind)
    /\ UNCHANGED notBench
    /\ UNCHANGED sigVars
    /\ UNCHANGED <<bKind, Iterations, Blackhole, backupCmds, durations,
                   iteration, results, repo,
                   ctxErr, cancelAt, started, cmdRet, report>>

\* cluster.runPreBenchmarkTasks(): the caches of every cluster node
ClusterPreTasks ==
    /\ bpc = "clusterPre"
    /\ Exec("clusterFlushCaches", "clientPre")
    /\ UNCHANGED notBench
    /\ UNCHANGED sigVars
    /\ UNCHANGED <<bKind, Iterations, Blackhole, backupCmds, durations,
                   iteration, results, repo,
                   ctxErr, cancelAt, started, cmdRet, report>>

\* ClientPreTasks with the step skipped once the context is cancelled
ClientPreTasksCtx ==
    /\ bpc = "clientPre"
    /\ IF ctxErr
       THEN /\ bpc' = (IF bKind = "backup" THEN "backup" ELSE "restore")
            /\ UNCHANGED <<bSteps, timedSteps, bRet>>
       ELSE Exec("clientFlushCaches",
                 IF bKind = "backup" THEN "backup" ELSE "restore")
    /\ UNCHANGED notBench
    /\ UNCHANGED sigVars
    /\ UNCHANGED <<bKind, Iterations, Blackhole, backupCmds, durations,
                   iteration, results, repo,
                   ctxErr, cancelAt, started, cmdRet, report>>

\* b.runPreBenchmarkTasks(): the caches of the backup client
ClientPreTasks ==
    /\ bpc = "clientPre"
    /\ Exec("clientFlushCaches", IF bKind = "backup" THEN "backup" ELSE "restore")
    /\ UNCHANGED notBench
    /\ UNCHANGED sigVars
    /\ UNCHANGED <<bKind, Iterations, Blackhole, backupCmds, durations,
                   iteration, results, repo,
                   ctxErr, cancelAt, started, cmdRet, report>>

\* b.restoreBackup(config, cluster)
RestoreCommand ==
    /\ bpc = "restore"
    /\ Exec("restore", "append")
    /\ UNCHANGED notBench
    /\ UNCHANGED sigVars
    /\ UNCHANGED <<bKind, Iterations, Blackhole, backupCmds, durations,
                   iteration, results, repo,
                   ctxErr, cancelAt, started, cmdRet, report>>

\* purgeBackups, the info query; nothing is removed from an empty repository
PurgeInfo ==
    /\ bpc = "purgeInfo"
    /\ Exec("purgeInfo", IF repo = 0 THEN "append" ELSE "remove")
    /\ UNCHANGED notBench
    /\ UNCHANGED sigVars
    /\ UNCHANGED <<bKind, Iterations, Blackhole, backupCmds, durations,
                   iteration, results, repo,
                   ctxErr, cancelAt, started, cmdRet, report>>

\* PurgeRemove leaving the backups of the iteration in the repository
PurgeRemoveKeeps ==
    /\ bpc = "remove"
    /\ Exec("remove", "append")
    /\ repo' = repo
    /\ UNCHANGED notBench
    /\ UNCHANGED sigVars
    /\ UNCHANGED <<bKind, Iterations, Blackhole, backupCmds, durations,
                   iteration, results, ctxErr,
                   cancelAt, started, cmdRet, report>>

\* purgeBackups, the remove command from the first to the last backup
PurgeRemove ==
    /\ bpc = "remove"
    /\ Exec("remove", "append")
    /\ repo' = IF bpc' = "append" THEN 0 ELSE repo
    /\ UNCHANGED notBench
    /\ UNCHANGED sigVars
    /\ UNCHANGED <<bKind, Iterations, Blackhole, backupCmds, durations,
                   iteration, results, ctxErr,
                   cancelAt, started, cmdRet, report>>

\* results = append(results, result)
AppendResult ==
    /\ bpc = "append"
    /\ results' = [results EXCEPT !.items = Append(@, iteration + 1)]
    /\ durations' = Append(durations, timedSteps)
    /\ bpc' = "ctxCheck"
    /\ UNCHANGED notBench
    /\ UNCHANGED sigVars
    /\ UNCHANGED <<bKind, Iterations, Blackhole, backupCmds, iteration, bSteps, timedSteps, repo,
                   ctxErr, cancelAt, started, bRet, cmdRet, report>>

\* CtxCheck without the break: the loop goes on whatever the context says
CtxCheckNoBreak ==
    /\ bpc = "ctxCheck"
    /\ bpc' = "loop"
    /\ iteration' = iteration + 1
    /\ UNCHANGED notBench
    /\ UNCHANGED sigVars
    /\ UNCHANGED <<bKind, Iterations, Blackhole, backupCmds, durations, results, bSteps, timedSteps, repo,
                   ctxErr, cancelAt, started, bRet, cmdRet, report>>

\* if ctx.Err() != nil { break }, else iteration++
CtxCheck ==
    /\ bpc = "ctxCheck"
    /\ IF ctxErr
       THEN /\ bpc' = "cmdCheck"
            /\ bRet' = [kind |-> "ret", results |-> results.items, err |-> "nil"]
            /\ iteration' = iteration
       ELSE /\ bpc' = "loop"
            /\ bRet' = bRet
            /\ iteration' = iteration + 1
    /\ UNCHANGED notBench
    /\ UNCHANGED sigVars
    /\ UNCHANGED <<bKind, Iterations, Blackhole, backupCmds, durations, results, bSteps, timedSteps, repo,
                   ctxErr, cancelAt, started, cmdRet, report>>

\* cmd.benchmark: if err != nil { return errors.Wrap(err, ...) }
CmdCheck ==
    /\ bpc = "cmdCheck"
    /\ IF bRet.err # "nil"
       THEN bpc' = "exit" /\ cmdRet' = "failed to run benchmark(s)"
       ELSE bpc' = "stats" /\ cmdRet' = cmdRet
    /\ UNCHANGED notBench
    /\ UNCHANGED sigVars
    /\ UNCHANGED <<bKind, Iterations, Blackhole, backupCmds, durations,
                   iteration, results, bSteps, timedSteps,
                   repo, ctxErr, cancelAt, started, bRet, report>>

\* cmd.benchmark: cluster.Stats()
CmdStats ==
    /\ bpc = "stats"
    /\ \E ok \in BOOLEAN :
          IF ok
          THEN bpc' = "collectLogs" /\ cmdRet' = cmdRet
          ELSE bpc' = "exit" /\ cmdRet' = "failed to get cluster stats"
    /\ UNCHANGED notBench
    /\ UNCHANGED sigVars
    /\ UNCHANGED <<bKind, Iterations, Blackhole, backupCmds, durations,
                   iteration, results, bSteps, timedSteps,
                   repo, ctxErr, cancelAt, started, bRet, report>>

\* cmd.benchmark: collectLogs(...)
CmdCollectLogs ==
    /\ bpc = "collectLogs"
    /\ \E ok \in BOOLEAN :
          IF ok
          THEN bpc' = "report" /\ cmdRet' = cmdRet
          ELSE bpc' = "exit" /\ cmdRet' = "failed to collect logs"
    /\ UNCHANGED notBench
    /\ UNCHANGED sigVars
    /\ UNCHANGED <<bKind, Iterations, Blackhole, backupCmds, durations,
                   iteration, results, bSteps, timedSteps,
                   repo, ctxErr, cancelAt, started, bRet, report>>

\* report.NewRundown: one row per result, appended in the order of the
\* results; a row is built from the fields of its result alone
NewRundown(rs) == [i \in 1..Len(rs) |-> [of |-> rs[i]]]

\* cmd.benchmark: report.NewReport(Options{Results: results, ...}) and Print.
\* NewOverview divides the sums by len(options.Results): an integer division
\* by zero panics
CmdReport ==
    /\ bpc = "report"
    /\ IF Len(bRet.results) = 0
       THEN /\ bpc' = "panicked"
            /\ cmdRet' = "integer divide by zero"
            /\ report' = report
       ELSE /\ report' = [built |-> TRUE, results |-> bRet.results,
                          count |-> Len(bRet.results),
                          rundown |-> NewRundown(bRet.results)]
            /\ bpc' = "exit"
            /\ cmdRet' = "nil"
    /\ UNCHANGED notBench
    /\ UNCHANGED sigVars
    /\ UNCHANGED <<bKind, Iterations, Blackhole, backupCmds, durations,
                   iteration, results, bSteps, timedSteps,
                   repo, ctxErr, cancelAt, started, bRet>>

\* the process runs: the command has not returned, the goroutine has not
\* panicked and no signal has terminated the process
Alive == bpc \notin {"exit", "panicked", "killed"}

\* A SIGINT is sent to the process. While signal.Notify is in force the
\* signal is put into signalStream without blocking (dropped when the channel
\* is full); otherwise the default action terminates the process.
Sigint ==
    /\ Alive
    /\ sigints < MaxSigints
    /\ sigints' = sigints + 1
    /\ IF sigNotify
       THEN /\ sigStream' = 1
            /\ bpc' = bpc
       ELSE /\ sigStream' = sigStream
            /\ bpc' = "killed"
    /\ UNCHANGED notBench
    /\ UNCHANGED <<sigNotify, sigpc, cancels>>
    /\ UNCHANGED <<bKind, Iterations, Blackhole, backupCmds, durations,
                   iteration, results, bSteps, timedSteps, repo, ctxErr,
                   cancelAt, started, bRet, cmdRet, report>>

\* signalHandler, the goroutine: <-signalStream
HandlerReceive ==
    /\ Alive
    /\ sigpc = "recv"
    /\ sigStream = 1
    /\ sigStream' = 0
    /\ sigpc' = "stop"
    /\ UNCHANGED notBench
    /\ UNCHANGED <<sigNotify, sigints, cancels>>
    /\ UNCHANGED <<bKind, Iterations, Blackhole, backupCmds, durations, bpc,
                   iteration, results, bSteps, timedSteps, repo, ctxErr,
                   cancelAt, started, bRet, cmdRet, report>>

\* HandlerStop without signal.Stop: the channel keeps receiving signals
HandlerStopKeepsNotify ==
    /\ Alive
    /\ sigpc = "stop"
    /\ sigpc' = "cancel"
    /\ UNCHANGED notBench
    /\ UNCHANGED <<sigStream, sigNotify, sigints, cancels>>
    /\ UNCHANGED <<bKind, Iterations, Blackhole, backupCmds, durations, bpc,
                   iteration, results, bSteps, timedSteps, repo, ctxErr,
                   cancelAt, started, bRet, cmdRet, report>>

\* signalHandler, the goroutine: signal.Stop(signalStream) and
\* close(signalStream); a signal still held by the channel is lost
HandlerStop ==
    /\ Alive
    /\ sigpc = "stop"
    /\ sigNotify' = FALSE
    /\ sigStream' = 0
    /\ sigpc' = "cancel"
    /\ UNCHANGED notBench
    /\ UNCHANGED <<sigints, cancels>>
    /\ UNCHANGED <<bKind, Iterations, Blackhole, backupCmds, durations, bpc,
                   iteration, results, bSteps, timedSteps, repo, ctxErr,
                   cancelAt, started, bRet, cmdRet, report>>

\* signalHandler, the goroutine: cancelFunc(), then the goroutine ends
Cancel ==
    /\ Alive
    /\ sigpc = "cancel"
    /\ sigpc' = "done"
    /\ cancels' = cancels + 1
    /\ ctxErr' = TRUE
    /\ cancelAt' = IF ctxErr THEN cancelAt
                   ELSE [iter |-> IF InBody THEN iteration + 1 ELSE 0,
                         pc |-> bpc, started |-> started]
    /\ UNCHANGED notBench
    /\ UNCHANGED <<sigStream, sigNotify, sigints>>
    /\ UNCHANGED <<bKind, Iterations, Blackhole, backupCmds, durations, bpc,
                   iteration, results, bSteps, timedSteps, repo, started,
                   bRet, cmdRet, report>>

BNext ==
    \/ PurgeArchive \/ CreateRepository \/ BackupCommand \/ BackupSync
    \/ BackupInfo \/ MakeResults \/ LoopCond \/ FlushBucket
    \/ ClusterPreTasks \/ ClientPreTasks \/ RestoreCommand \/ PurgeInfo
    \/ PurgeRemove \/ AppendResult \/ CtxCheck \/ CmdCheck \/ CmdStats
    \/ CmdCollectLogs \/ CmdReport
    \/ Sigint \/ HandlerReceive \/ HandlerStop \/ Cancel

SpecBench == BInit /\ [][BNext]_vars

----------------------------------------------------------------------------
(* Properties of the benchmark loop, checked under SpecBench *)

\* the remote steps of one complete iteration, in program order
IterationSteps ==
    IF bKind = "backup"
    THEN <<"clusterFlushCaches", "clientFlushCaches", "backup", "sync", "info",
           "purgeInfo", "remove">>
    ELSE (IF Blackhole THEN <<>> ELSE <<"flushBucket">>)
         \o <<"clusterFlushCaches", "clientFlushCaches", "restore">>

IsPrefix(s, t) == Len(s) <= Len(t) /\ s = SubSeq(t, 1, Len(s))

\* C1: when no step fails and the signal is never set, the benchmark call
\* returns exactly max(1, Iterations) results in execution order, also for
\* Iterations zero or negative.
C1_MinOneIteration ==
    (bpc \in {"cmdCheck", "panicked"} /\ ~ctxErr /\ bRet.err = "nil")
        => /\ bRet.kind = "ret"
           /\ bRet.results = UpTo(max(1, Iterations))

\* C2: with the signal set while iteration k runs and no step failing, the
\* call returns exactly the results 1..k, iteration k+1 is never started and
\* nothing partial is appended.
C2_CancelDuringIterationK ==
    (bRet.kind = "ret" /\ bRet.err = "nil" /\ cancelAt.iter >= 1)
        => /\ bRet.results = UpTo(cancelAt.iter)
           /\ results.items = UpTo(cancelAt.iter)
           /\ started = cancelAt.iter

C2_Witness ==
    /\ bRet.kind = "ret" /\ bRet.err = "nil"
    /\ Iterations = 3
    /\ cancelAt.iter = 2 /\ cancelAt.pc = "clientPre"
    /\ Len(bRet.results) = 2

\* C3 as stated: the k >= 1 results completed before a failing step are
\* still returned and reach the report, and a failure of the stats or of the
\* log collection does not discard them.
C3_PartialResultsSurvive ==
    /\ (bRet.kind = "ret" /\ bRet.err # "nil" /\ Len(results.items) >= 1)
          => bRet.results = results.items
    /\ (bpc = "exit" /\ bRet.kind = "ret" /\ Len(results.items) >= 1)
          => (report.built /\ report.results = results.items)

\* C3 as amended: a failing step makes the benchmark call return nil beside
\* the error, whatever was completed; the command builds the report only when
\* the benchmark, the stats and the log collection all succeeded, and returns
\* an error without a report otherwise.
C3_FailureDiscardsResults ==
    /\ (bRet.kind = "ret" /\ bRet.err # "nil") => bRet.results = <<>>
    /\ (bpc = "exit" /\ cmdRet # "nil") => ~report.built
    /\ (bpc = "exit" /\ bRet.kind = "ret" /\ bRet.err # "nil")
          => cmdRet = "failed to run benchmark(s)"
    /\ report.built
          => (bRet.err = "nil" /\ cmdRet = "nil"
              /\ report.results = results.items)

C3_Witness ==
    /\ bpc = "exit"
    /\ bRet.kind = "ret" /\ bRet.err = "backup"
    /\ Len(results.items) = 2
    /\ bRet.results = <<>>
    /\ ~report.built

\* C4: the signal is read only at the end of an iteration: an iteration that
\* was started executes every one of its steps in program order, cancelled
\* or not; a step is left out only after an earlier step of it failed.
C4_NoStepSkippedOnCancel ==
    /\ (InBody /\ bRet.kind = "none") => IsPrefix(bSteps, IterationSteps)
    /\ (bpc \in {"append", "ctxCheck"}) => bSteps = IterationSteps
    /\ (bRet.kind = "ret" /\ bRet.err = "nil") => bSteps = IterationSteps
    /\ (bRet.kind = "ret" /\ bRet.err # "nil")
          => bRet.err = bSteps[Len(bSteps)]

C4_Witness ==
    /\ bpc = "ctxCheck"
    /\ bKind = "backup"
    /\ ctxErr
    /\ cancelAt.iter = iteration + 1 /\ cancelAt.pc = "clusterPre"
    /\ bSteps = IterationSteps

----------------------------------------------------------------------------
(* nodes.Cluster: Provision, modifyEvictionPercentages, forEachNode *)

Nodes == 1..nodesN

\* the statements of Cluster.Provision in program order, with initializeCB
\* unfolded: clusterInit, the fan-out of serverAdd, rebalance
ProvisionProgram ==
    << [type |-> "fan",    name |-> "provisionNode"],
       [type |-> "leader", name |-> "clusterInit"],
       [type |-> "fan",    name |-> "serverAdd"],
       [type |-> "leader", name |-> "rebalance"],
       [type |-> "leader", name |-> "developerPreview"],
       [type |-> "leader", name |-> "limitVBuckets"],
       [type |-> "leader", name |-> "createBucket"] >>

\* modifyEvictionPercentages: one fan-out of modifyEvictionPercentage
EvictionProgram == << [type |-> "fan", name |-> "modifyEvictionPercentage"] >>

Program == IF op = "Provision" THEN ProvisionProgram ELSE EvictionProgram

\* enableDeveloperPreviewMode and limitVBuckets return nil at once, without
\* a command, when the blueprint does not ask for them
Wanted(name) ==
    CASE name = "developerPreview" -> DeveloperPreview
      [] name = "limitVBuckets" -> LimitVB
      [] OTHER -> TRUE

\* serverAdd without the test c.nodes[0] == node
UnitCommandsNoLeaderCheck(kind, n) ==
    CASE kind = "provisionNode" -> <<"provision", "createDataPath", "node-init">>
      [] kind = "serverAdd" -> <<"server-add">>
      [] kind = "modifyEvictionPercentage" -> <<"set-eviction">>
      [] OTHER -> <<>>

\* the remote commands the function handed to forEachNode runs for a node, in
\* program order. provisionNode: node.provision, node.createDataPath,
\* node.initializeCB; serverAdd: nothing for nodes[0], else the server-add;
\* modifyEvictionPercentage: the cbepctl set command.
UnitCommands(kind, n) ==
    CASE kind = "provisionNode" -> <<"provision", "createDataPath", "node-init">>
      [] kind = "serverAdd" -> IF n = 1 THEN <<>> ELSE <<"server-add">>
      [] kind = "modifyEvictionPercentage" -> <<"set-eviction">>
      [] OTHER -> <<>>

\* the connection (node.client of which node) a unit runs its commands over:
\* provisionNode uses node.client; serverAdd and modifyEvictionPercentage
\* call c.nodes[0].client.ExecuteCommand
UnitConn(kind, n) ==
    CASE kind = "provisionNode" -> n
      [] kind = "serverAdd" -> 1
      [] kind = "modifyEvictionPercentage" -> 1
      [] OTHER -> n

\* the host a command of a unit names in its arguments: --server-add
\* node.blueprint.Host for the server-add; no other command names a host
\* (0), they address localhost
UnitHost(kind, n) == IF kind = "serverAdd" THEN n ELSE 0

\* the i-th command of the unit of node n, as a bag of one: the command, the
\* node whose unit issued it, the connection it went over and the host it
\* names
UnitIssues(kind, n, i) ==
    SetToBag({[cmd |-> UnitCommands(kind, n)[i], by |-> n,
               conn |-> UnitConn(kind, n), host |-> UnitHost(kind, n)]})

\* the Go helper maths.Min
Min(a, b) == IF a <= b THEN a ELSE b

\* hofp.Options{Size: maths.Min(system.NumCPU(), len(c.nodes))}
PoolSize == Min(NumCPU, nodesN)

Queued == {n \in Nodes : unit[n].st = "queued"}
Running == {n \in Nodes : unit[n].st = "run"}
Invoked == {n \in Nodes : unit[n].st \in {"run", "done", "failed"}}

\* Pool.Queue accepts a unit: no fault is recorded and the channel has room
PoolQueueAccepts == poolErr = 0 /\ Cardinality(Queued) < PoolSize

\* Pool.Queue fails once the pool has recorded a fault
PoolQueueFails == poolErr # 0

\* Pool.Stop has waited for every accepted unit
PoolStopDone == Queued = {} /\ Running = {}

\* the pool keeps the first error and discards the later ones
PoolSetErr(n) == IF poolErr = 0 THEN n ELSE poolErr

\* the benchmark command is not running
BenchIdle ==
    /\ bKind = "backup" /\ Iterations = 1 /\ Blackhole = FALSE
    /\ bpc = "exit" /\ iteration = 0
    /\ results = [allocated |-> FALSE, items |-> <<>>]
    /\ bSteps = <<>> /\ repo = 0 /\ ctxErr = FALSE
    /\ cancelAt = [iter |-> 0, pc |-> "never", started |-> 0]
    /\ started = 0 /\ bRet = NoRet /\ cmdRet = "nil"
    /\ report = NoReport
    /\ backupCmds = <<>> /\ timedSteps = <<>> /\ durations = <<>>
    /\ sigStream = 0 /\ sigNotify = FALSE /\ sigpc = "done"
    /\ sigints = 0 /\ cancels = 0

CInit ==
    /\ TrimIdle
    /\ LogIdle
    /\ ConnIdle
    /\ CmdIdle
    /\ TaskIdle
    /\ NodeIdle
    /\ ProvIdle
    /\ RateIdle
    /\ BenchIdle
    /\ LoadIdle
    /\ PollIdle
    /\ nodesN \in 1..MaxNodes
    /\ NumCPU \in 1..MaxCPU
    /\ op \in {"Provision", "modifyEvictionPercentages"}
    /\ DeveloperPreview \in BOOLEAN
    /\ LimitVB \in BOOLEAN
    /\ (op # "Provision") => (~DeveloperPreview /\ ~LimitVB)
    /\ opi = 1 /\ lpc = "idle" /\ leaderLog = <<>> /\ opRet = "running"
    /\ fpc = "idle" /\ fi = 1 /\ fkind = "none"
    /\ unit = [n \in Nodes |-> [st |-> "none", step |-> 0]]
    /\ poolErr = 0 /\ errOrder = <<>> /\ fret = -1
    /\ recv = [n \in Nodes |-> 0]
    /\ issued = EmptyBag

\* the operation moves to its next statement, or returns nil after the last
Advance ==
    /\ opi' = opi + 1
    /\ opRet' = IF opi + 1 > Len(Program) THEN "nil" ELSE opRet

AtStatement(type) ==
    /\ opRet = "running"
    /\ opi <= Len(Program)
    /\ Program[opi].type = type

\* forEachNode is called: a new pool, no unit queued yet
ForEachNodeCall ==
    /\ AtStatement("fan")
    /\ fpc = "idle"
    /\ fpc' = "loop"
    /\ fi' = 1
    /\ fkind' = Program[opi].name
    /\ unit' = [n \in Nodes |-> [st |-> "none", step |-> 0]]
    /\ poolErr' = 0 /\ errOrder' = <<>> /\ fret' = -1
    /\ recv' = [n \in Nodes |-> 0]
    /\ UNCHANGED <<nodesN, NumCPU, op, DeveloperPreview, LimitVB, opi, lpc,
                   leaderLog, opRet>>
    /\ UNCHANGED issued
    /\ UNCHANGED notCluster

\* ForEachNodeQueue passing over the node without handing its unit to the pool
ForEachNodeQueueDrops ==
    /\ fpc = "loop"
    /\ fi <= nodesN
    /\ PoolQueueAccepts
    /\ fi' = fi + 1
    /\ fpc' = IF fi + 1 > nodesN THEN "stop" ELSE "loop"
    /\ UNCHANGED <<nodesN, NumCPU, op, DeveloperPreview, LimitVB, opi, lpc,
                   leaderLog, opRet, fkind, unit, poolErr, errOrder, fret,
                   recv>>
    /\ UNCHANGED issued
    /\ UNCHANGED notCluster

\* for _, node := range c.nodes { if queue(node) != nil { break } }: the unit
\* of the next node is accepted; after the last node pool.Stop() is called
ForEachNodeQueue ==
    /\ fpc = "loop"
    /\ fi <= nodesN
    /\ PoolQueueAccepts
    /\ unit' = [unit EXCEPT ![fi] = [st |-> "queued", step |-> 0]]
    /\ fi' = fi + 1
    /\ fpc' = IF fi + 1 > nodesN THEN "stop" ELSE "loop"
    /\ UNCHANGED <<nodesN, NumCPU, op, DeveloperPreview, LimitVB, opi, lpc,
                   leaderLog, opRet, fkind, poolErr, errOrder, fret, recv>>
    /\ UNCHANGED issued
    /\ UNCHANGED notCluster

\* ForEachNodeBreak without the break: the loop goes on to the next node
ForEachNodeContinue ==
    /\ fpc = "loop"
    /\ fi <= nodesN
    /\ PoolQueueFails
    /\ fi' = fi + 1
    /\ fpc' = IF fi + 1 > nodesN THEN "stop" ELSE "loop"
    /\ UNCHANGED <<nodesN, NumCPU, op, DeveloperPreview, LimitVB, opi, lpc,
                   leaderLog, opRet, fkind, unit, poolErr, errOrder, fret,
                   recv>>
    /\ UNCHANGED issued
    /\ UNCHANGED notCluster

\* queue(node) != nil: break, then pool.Stop()
ForEachNodeBreak ==
    /\ fpc = "loop"
    /\ fi <= nodesN
    /\ PoolQueueFails
    /\ fpc' = "stop"
    /\ UNCHANGED <<nodesN, NumCPU, op, DeveloperPreview, LimitVB, opi, lpc,
                   leaderLog, opRet, fi, fkind, unit, poolErr, errOrder, fret,
                   recv>>
    /\ UNCHANGED issued
    /\ UNCHANGED notCluster

\* ForEachNodeStop returning after the loop without the wait of pool.Stop()
ForEachNodeStopNoWait ==
    /\ fpc = "stop"
    /\ fret' = poolErr
    /\ fpc' = "ret"
    /\ UNCHANGED <<nodesN, NumCPU, op, DeveloperPreview, LimitVB, opi, lpc,
                   leaderLog, opRet, fi, fkind, unit, poolErr, errOrder, recv>>
    /\ UNCHANGED issued
    /\ UNCHANGED notCluster

\* ForEachNodeStop dropping the error of pool.Stop() and returning nil
ForEachNodeStopNil ==
    /\ fpc = "stop"
    /\ PoolStopDone
    /\ fret' = 0
    /\ fpc' = "ret"
    /\ UNCHANGED <<nodesN, NumCPU, op, DeveloperPreview, LimitVB, opi, lpc,
                   leaderLog, opRet, fi, fkind, unit, poolErr, errOrder, recv>>
    /\ UNCHANGED issued
    /\ UNCHANGED notCluster

\* return pool.Stop(): the error of the pool once Stop has returned
ForEachNodeStop ==
    /\ fpc = "stop"
    /\ PoolStopDone
    /\ fret' = poolErr
    /\ fpc' = "ret"
    /\ UNCHANGED <<nodesN, NumCPU, op, DeveloperPreview, LimitVB, opi, lpc,
                   leaderLog, opRet, fi, fkind, unit, poolErr, errOrder, recv>>
    /\ UNCHANGED issued
    /\ UNCHANGED notCluster

\* a worker of the pool takes the oldest accepted unit and invokes it: the
\* unit issues its first command, or returns nil at once when it has none
WorkerTake ==
    /\ Queued # {}
    /\ Cardinality(Running) < PoolSize
    /\ LET n == CHOOSE m \in Queued : \A k \in Queued : m <= k
           cmds == UnitCommands(fkind, n)
       IN  IF cmds = <<>>
           THEN /\ unit' = [unit EXCEPT ![n] = [st |-> "done", step |-> 0]]
                /\ recv' = recv
                /\ issued' = issued
           ELSE /\ unit' = [unit EXCEPT ![n] = [st |-> "run", step |-> 1]]
                /\ recv' = [recv EXCEPT ![UnitConn(fkind, n)] = @ + 1]
                /\ issued' = issued (+) UnitIssues(fkind, n, 1)
    /\ UNCHANGED <<nodesN, NumCPU, op, DeveloperPreview, LimitVB, opi, lpc,
                   leaderLog, opRet, fpc, fi, fkind, poolErr, errOrder, fret>>
    /\ UNCHANGED notCluster

\* the command a unit has in flight returns: without error the unit issues
\* its next command or returns nil; with an error the unit returns it and the
\* pool records it
UnitStep ==
    \E n \in Running : \E ok \in BOOLEAN :
        /\ LET cmds == UnitCommands(fkind, n)
               s == unit[n].step
           IN  IF ok
               THEN IF s < Len(cmds)
                    THEN /\ unit' = [unit EXCEPT ![n].step = s + 1]
                         /\ recv' = [recv EXCEPT ![UnitConn(fkind, n)] = @ + 1]
                         /\ issued' = issued (+) UnitIssues(fkind, n, s + 1)
                         /\ UNCHANGED <<poolErr, errOrder>>
                    ELSE /\ unit' = [unit EXCEPT ![n].st = "done"]
                         /\ UNCHANGED <<poolErr, errOrder, recv, issued>>
               ELSE /\ unit' = [unit EXCEPT ![n].st = "failed"]
                    /\ poolErr' = PoolSetErr(n)
                    /\ errOrder' = Append(errOrder, n)
                    /\ UNCHANGED <<recv, issued>>
        /\ UNCHANGED <<nodesN, NumCPU, op, DeveloperPreview, LimitVB, opi, lpc,
                       leaderLog, opRet, fpc, fi, fkind, fret>>
        /\ UNCHANGED notCluster

\* the caller of forEachNode: if err != nil { return errors.Wrap(err, ...) }
FanReturn ==
    /\ AtStatement("fan")
    /\ fpc = "ret"
    /\ fpc' = "idle"
    /\ IF fret # 0
       THEN opRet' = Program[opi].name /\ opi' = opi
       ELSE Advance
    /\ UNCHANGED <<nodesN, NumCPU, op, DeveloperPreview, LimitVB, lpc,
                   leaderLog, fi, fkind, unit, poolErr, errOrder, fret, recv>>
    /\ UNCHANGED issued
    /\ UNCHANGED notCluster

\* a statement that runs one command on nodes[0]: the command is issued
LeaderIssue ==
    /\ AtStatement("leader")
    /\ lpc = "idle"
    /\ Wanted(Program[opi].name)
    /\ lpc' = "running"
    /\ issued' = issued (+) SetToBag({[cmd |-> Program[opi].name, by |-> 0,
                                       conn |-> 1, host |-> 0]})
    /\ UNCHANGED <<nodesN, NumCPU, op, DeveloperPreview, LimitVB, opi,
                   leaderLog, opRet, fpc, fi, fkind, unit, poolErr, errOrder,
                   fret, recv>>
    /\ UNCHANGED notCluster

\* enableDeveloperPreviewMode, limitVBuckets: nothing to do
LeaderSkip ==
    /\ AtStatement("leader")
    /\ lpc = "idle"
    /\ ~Wanted(Program[opi].name)
    /\ Advance
    /\ UNCHANGED <<nodesN, NumCPU, op, DeveloperPreview, LimitVB, lpc,
                   leaderLog, fpc, fi, fkind, unit, poolErr, errOrder, fret,
                   recv>>
    /\ UNCHANGED issued
    /\ UNCHANGED notCluster

\* the command on nodes[0] returns
LeaderReturn ==
    /\ AtStatement("leader")
    /\ lpc = "running"
    /\ lpc' = "idle"
    /\ \E ok \in BOOLEAN :
          IF ok
          THEN /\ leaderLog' = Append(leaderLog, Program[opi].name)
               /\ Advance
          ELSE /\ leaderLog' = leaderLog
               /\ opRet' = Program[opi].name
               /\ opi' = opi
    /\ UNCHANGED <<nodesN, NumCPU, op, DeveloperPreview, LimitVB, fpc, fi,
                   fkind, unit, poolErr, errOrder, fret, recv>>
    /\ UNCHANGED issued
    /\ UNCHANGED notCluster

CNext ==
    \/ ForEachNodeCall \/ ForEachNodeQueue \/ ForEachNodeBreak
    \/ ForEachNodeStop \/ WorkerTake \/ UnitStep \/ FanReturn
    \/ LeaderIssue \/ LeaderSkip \/ LeaderReturn

SpecCluster == CInit /\ [][CNext]_vars

----------------------------------------------------------------------------
(* Properties of the cluster orchestration, checked under SpecCluster *)

\* the leader command in flight, "none" when there is none
IssuedCmd == IF lpc = "running" THEN Program[opi].name ELSE "none"

\* the leader command c has returned without error
Returned(c) == \E i \in 1..Len(leaderLog) : leaderLog[i] = c

\* the last fan-out ran function kind, has returned, and every node's unit
\* has returned nil
FanDrained(kind) ==
    /\ fkind = kind
    /\ fpc = "idle"
    /\ \A n \in Nodes : unit[n].st = "done"

\* C5: in Cluster.Provision no leader command is in flight while a unit of a
\* fan-out is queued or running; cluster-init is issued only after every
\* node's provisioning unit has returned, the join fan-out starts only after
\* cluster-init returned, the rebalance is issued only after every join unit
\* has returned, and the bucket is created only after the rebalance returned.
C5_PhaseOrder ==
    (op = "Provision") =>
        /\ (IssuedCmd # "none") => (Queued = {} /\ Running = {})
        /\ (IssuedCmd = "clusterInit") => FanDrained("provisionNode")
        /\ (fkind = "serverAdd") => Returned("clusterInit")
        /\ (IssuedCmd = "rebalance") => FanDrained("serverAdd")
        /\ (IssuedCmd = "createBucket") => Returned("rebalance")
        /\ Returned("rebalance")
             => (leaderLog[1] = "clusterInit" /\ leaderLog[2] = "rebalance")

C5_Witness ==
    /\ op = "Provision"
    /\ nodesN = 3 /\ NumCPU = 2
    /\ IssuedCmd = "createBucket"
    /\ recv = [n \in Nodes |-> IF n = 1 THEN 2 ELSE 0]

\* C6: when units of a fan-out return errors, forEachNode returns only after
\* every accepted unit has finished and returns the first error recorded;
\* the errors of the other units are dropped.
C6_StopReturnsFirstError ==
    (fpc = "ret" /\ errOrder # <<>>)
        => /\ Queued = {} /\ Running = {}
           /\ fret # 0
           /\ fret = errOrder[1]

C6_Witness ==
    /\ fpc = "ret"
    /\ Len(errOrder) = 2
    /\ fret = errOrder[1]
    /\ errOrder[2] # fret

\* C7 as stated: with one failing unit among K and parallelism >= K,
\* forEachNode returns one error and all K units have been invoked.
C7_AllUnitsInvoked ==
    (fpc = "ret" /\ Len(errOrder) = 1 /\ PoolSize >= nodesN)
        => (fret # 0 /\ Invoked = Nodes)

\* C7 as amended: forEachNode returns one error, the first recorded; the
\* units invoked are those of the nodes the loop queued before Queue failed,
\* each of them finished, and the nodes from the loop position on were never
\* invoked.
C7_InvokedAreQueued ==
    (fpc = "ret" /\ errOrder # <<>>)
        => /\ fret = errOrder[1]
           /\ Invoked = 1..(fi - 1)
           /\ \A n \in Invoked : unit[n].st \in {"done", "failed"}
           /\ \A n \in fi..nodesN : unit[n].st = "none"

C7_Witness ==
    /\ fpc = "ret"
    /\ nodesN = 2 /\ PoolSize = 2
    /\ errOrder = <<1>>
    /\ fret = 1
    /\ Invoked = {1}

\* C8: no two units that run at the same time have their commands in flight
\* over the same connection.
C8_ExclusiveConnections ==
    \A m \in Running : \A n \in Running :
        (m # n) => (UnitConn(fkind, m) # UnitConn(fkind, n))

\* C9: when modifyEvictionPercentages returns nil, the set command has been
\* issued once over the connection of every node.
C9_EvictionOnEveryNode ==
    (op = "modifyEvictionPercentages" /\ fpc = "ret" /\ fret = 0)
        => \A n \in Nodes : recv[n] = 1

----------------------------------------------------------------------------
(* Cluster.loadData: the shares *)

\* Go's integer division truncates toward zero
GoDiv(a, b) ==
    IF (a >= 0) = (b >= 0)
    THEN (IF a >= 0 THEN a ELSE -a) \div (IF b >= 0 THEN b ELSE -b)
    ELSE -((IF a >= 0 THEN a ELSE -a) \div (IF b >= 0 THEN b ELSE -b))

\* Go's remainder has the sign of the dividend
GoMod(a, b) == a - b * GoDiv(a, b)

\* the share without the remainder
LastShareNoRemainder == GoDiv(ldItems, ldN)

\* items <- (Items / len(c.nodes)) + (Items % len(c.nodes))
LastShare == GoDiv(ldItems, ldN) + GoMod(ldItems, ldN)

\* items <- Items / len(c.nodes)
EvenShare == GoDiv(ldItems, ldN)

\* the item totals of the scenario of two nodes
ScenarioItems == {500000, 500001}

LInit ==
    /\ TrimIdle
    /\ LogIdle
    /\ ConnIdle
    /\ CmdIdle
    /\ TaskIdle
    /\ NodeIdle
    /\ ProvIdle
    /\ RateIdle
    /\ BenchIdle
    /\ ClusterIdle
    /\ PollIdle
    /\ ldN \in 1..MaxNodes
    /\ ldItems \in (0..MaxItems) \cup ScenarioItems
    /\ DataLoader \in {"cbm", "pillowfight", "other"}
    /\ ldpc = "loop"
    /\ ldi = 0
    /\ items = <<>>
    /\ ldRet = "running"
    /\ ldCPU \in 1..MaxCPU
    /\ ldfi = 1
    /\ ldUnit = [n \in 1..ldN |-> [st |-> "none", share |-> -1]]
    /\ ldPoolErr = 0

\* for i := 0; i < len(c.nodes)-1; i++ { items <- Items / len(c.nodes) }
LoadPushShare ==
    /\ ldpc = "loop"
    /\ IF ldi < ldN - 1
       THEN /\ items' = Append(items, EvenShare)
            /\ ldi' = ldi + 1
            /\ ldpc' = ldpc
       ELSE /\ ldpc' = "last"
            /\ UNCHANGED <<items, ldi>>
    /\ UNCHANGED <<ldN, ldItems, DataLoader, ldRet>>
    /\ UNCHANGED ldFanVars
    /\ UNCHANGED notLoad

\* loadData without the send after the loop
LoadPushLastOmitted ==
    /\ ldpc = "last"
    /\ ldpc' = "switch"
    /\ UNCHANGED <<ldN, ldItems, DataLoader, ldi, items, ldRet>>
    /\ UNCHANGED ldFanVars
    /\ UNCHANGED notLoad

\* the send after the loop
LoadPushLast ==
    /\ ldpc = "last"
    /\ items' = Append(items, LastShare)
    /\ ldpc' = "switch"
    /\ UNCHANGED <<ldN, ldItems, DataLoader, ldi, ldRet>>
    /\ UNCHANGED ldFanVars
    /\ UNCHANGED notLoad

\* switch c.blueprint.Bucket.Data.DataLoader: an unknown loader is an error,
\* otherwise the fan-out over the nodes follows
LoadSwitch ==
    /\ ldpc = "switch"
    /\ IF DataLoader \in {"cbm", "pillowfight"}
       THEN ldpc' = "forEachNode" /\ ldRet' = ldRet
       ELSE ldpc' = "done" /\ ldRet' = "unknown/unsupported data loader"
    /\ UNCHANGED <<ldN, ldItems, DataLoader, ldi, items>>
    /\ UNCHANGED ldFanVars
    /\ UNCHANGED notLoad

\* hofp.Options{Size: maths.Min(system.NumCPU(), len(c.nodes))}
LdPoolSize == Min(ldCPU, ldN)

LdNodes == 1..ldN
LdQueued == {n \in LdNodes : ldUnit[n].st = "queued"}
\* the units a worker holds: invoked, before or after the receive of the share
LdRunning == {n \in LdNodes : ldUnit[n].st \in {"invoked", "run"}}

\* return c.forEachNode(nodeDataLoadingFunc): a new pool
LoadForEachNodeCall ==
    /\ ldpc = "forEachNode"
    /\ ldpc' = "fanloop"
    /\ ldfi' = 1
    /\ ldPoolErr' = 0
    /\ UNCHANGED <<ldN, ldItems, DataLoader, ldi, items, ldRet, ldCPU, ldUnit>>
    /\ UNCHANGED notLoad

\* for _, node := range c.nodes { if queue(node) != nil { break } }: the unit
\* of the next node is accepted
LoadQueue ==
    /\ ldpc = "fanloop"
    /\ ldfi <= ldN
    /\ ldPoolErr = 0
    /\ Cardinality(LdQueued) < LdPoolSize
    /\ ldUnit' = [ldUnit EXCEPT ![ldfi].st = "queued"]
    /\ ldfi' = ldfi + 1
    /\ ldpc' = IF ldfi + 1 > ldN THEN "fanstop" ELSE "fanloop"
    /\ UNCHANGED <<ldN, ldItems, DataLoader, ldi, items, ldRet, ldCPU,
                   ldPoolErr>>
    /\ UNCHANGED notLoad

\* queue(node) != nil: break
LoadBreak ==
    /\ ldpc = "fanloop"
    /\ ldfi <= ldN
    /\ ldPoolErr # 0
    /\ ldpc' = "fanstop"
    /\ UNCHANGED <<ldN, ldItems, DataLoader, ldi, items, ldRet, ldCPU, ldfi,
                   ldUnit, ldPoolErr>>
    /\ UNCHANGED notLoad

\* a worker of the pool takes the oldest accepted unit and invokes
\* nodeDataLoadingFunc(node)
LoadWorkerTake ==
    /\ LdQueued # {}
    /\ Cardinality(LdRunning) < LdPoolSize
    /\ LET n == CHOOSE m \in LdQueued : \A k \in LdQueued : m <= k
       IN  ldUnit' = [ldUnit EXCEPT ![n].st = "invoked"]
    /\ UNCHANGED <<ldN, ldItems, DataLoader, ldpc, ldi, items, ldRet, ldCPU,
                   ldfi, ldPoolErr>>
    /\ UNCHANGED notLoad

\* c.loadDataFromNodeUsing...(node, <-items): the unit receives the oldest
\* share of the channel and runs the loader on its node with it; the receive
\* blocks while the channel is empty
LoadUnitReceive ==
    \E n \in LdNodes :
        /\ ldUnit[n].st = "invoked"
        /\ items # <<>>
        /\ ldUnit' = [ldUnit EXCEPT ![n] = [st |-> "run", share |-> Head(items)]]
        /\ items' = Tail(items)
        /\ UNCHANGED <<ldN, ldItems, DataLoader, ldpc, ldi, ldRet, ldCPU, ldfi,
                       ldPoolErr>>
        /\ UNCHANGED notLoad

\* the loader command of a unit returns; an error is recorded by the pool
LoadUnitReturn ==
    \E n \in LdNodes : \E ok \in BOOLEAN :
        /\ ldUnit[n].st = "run"
        /\ IF ok
           THEN /\ ldUnit' = [ldUnit EXCEPT ![n].st = "done"]
                /\ ldPoolErr' = ldPoolErr
           ELSE /\ ldUnit' = [ldUnit EXCEPT ![n].st = "failed"]
                /\ ldPoolErr' = IF ldPoolErr = 0 THEN n ELSE ldPoolErr
        /\ UNCHANGED <<ldN, ldItems, DataLoader, ldpc, ldi, items, ldRet, ldCPU,
                       ldfi>>
        /\ UNCHANGED notLoad

\* return pool.Stop(): waits for the accepted units, returns the pool's error
LoadStop ==
    /\ ldpc = "fanstop"
    /\ LdQueued = {} /\ LdRunning = {}
    /\ ldpc' = "done"
    /\ ldRet' = IF ldPoolErr = 0 THEN "nil" ELSE "loader failed"
    /\ UNCHANGED <<ldN, ldItems, DataLoader, ldi, items, ldCPU, ldfi, ldUnit,
                   ldPoolErr>>
    /\ UNCHANGED notLoad

LNext ==
    \/ LoadPushShare \/ LoadPushLast \/ LoadSwitch
    \/ LoadForEachNodeCall \/ LoadQueue \/ LoadBreak \/ LoadWorkerTake
    \/ LoadUnitReceive \/ LoadUnitReturn \/ LoadStop

SpecLoad == LInit /\ [][LNext]_vars

\* the scheduler runs every goroutine that can take a step, and a loader
\* command that was started returns
SpecLoadFair == SpecLoad /\ WF_vars(LNext)

----------------------------------------------------------------------------
(* Properties of the shares, checked under SpecLoad *)

RECURSIVE SumSeq(_)
SumSeq(s) == IF s = <<>> THEN 0 ELSE s[1] + SumSeq(Tail(s))

\* C10: once loadData has prepared the shares, there are N of them: N-1 of
\* floor(T/N) and then one of floor(T/N) + (T mod N), and they sum to T.
C10_SharesSumToTotal ==
    (ldpc \in {"switch", "forEachNode"})
        => /\ Len(items) = ldN
           /\ \A i \in 1..(ldN - 1) : items[i] = ldItems \div ldN
           /\ items[ldN] = (ldItems \div ldN) + (ldItems % ldN)
           /\ SumSeq(items) = ldItems

C10_Witness ==
    /\ ldpc = "forEachNode"
    /\ ldN = 2 /\ ldItems = 500001
    /\ items = <<250000, 250001>>

\* the share the split assigns to the node at position n
ExpectedShare(n) ==
    IF n = ldN THEN (ldItems \div ldN) + (ldItems % ldN) ELSE ldItems \div ldN

\* C11: in every interleaving of the load units, the last node runs the
\* loader with floor(T/N) + (T mod N) items and every other node with
\* floor(T/N) items.
C11_RemainderOnLastNode ==
    \A n \in LdNodes :
        ldUnit[n].st \in {"run", "done", "failed"}
            => ldUnit[n].share = ExpectedShare(n)

----------------------------------------------------------------------------
(* poll, Cluster.CollectLogs, Cluster.compactBucket *)

\* time.NewTicker(15 * time.Second)
PollInterval == 15

\* poll(c.logCollectionComplete, 5*time.Minute), in seconds
CollectLogsTimeout == 300

\* the timeouts handed to poll: every fifth second up to the bound, and the
\* timeout of CollectLogs
PollTimeouts == {t \in 0..MaxTimeout : t % 5 = 0} \cup {CollectLogsTimeout}

\* the moments the remote state may become complete
ReadyTimes == {t \in 0..MaxTimeout : t % 5 = 0}

\* time is followed until two poll intervals after the timeout
ClockCap == pTimeout + 2 * PollInterval

\* ctx.Done() is ready: the timeout of context.WithTimeout has elapsed
CtxDone == now >= pTimeout

\* the remote state is complete at this moment
RemoteComplete == predReadyAt >= 0 /\ now >= predReadyAt

\* the moments at which something happens: a tick, the timeout, the remote
\* state becoming complete
Events ==
    {t \in 1..ClockCap :
        t % PollInterval = 0 \/ t = pTimeout \/ t = predReadyAt \/ t = ClockCap}

NextEvent == CHOOSE t \in Events : t > now /\ \A u \in Events : u > now => t <= u

PInit ==
    /\ TrimIdle
    /\ LogIdle
    /\ ConnIdle
    /\ CmdIdle
    /\ TaskIdle
    /\ NodeIdle
    /\ ProvIdle
    /\ RateIdle
    /\ BenchIdle
    /\ ClusterIdle
    /\ LoadIdle
    /\ caller \in {"CollectLogs", "compactBucket"}
    /\ pTimeout \in PollTimeouts
    /\ predReadyAt \in ReadyTimes \cup {-1}
    /\ predMayFail \in BOOLEAN
    /\ ppc = "start"
    /\ now = 0
    /\ tickPending = FALSE
    /\ evals = 0
    /\ ticksTaken = 0
    /\ firstEvalAt = -1
    /\ sawReady = FALSE
    /\ errAt = 0
    /\ remoteFail = FALSE
    /\ pRet = NoPollRet
    /\ enumerated = FALSE
    /\ downloaded = FALSE
    /\ cRet = "running"

\* c.startCollection() in CollectLogs; the bucket-compact command in
\* compactBucket: an error is returned to the caller's caller
StartCommand ==
    /\ ppc = "start"
    /\ \E ok \in BOOLEAN :
          IF ok
          THEN /\ ppc' = IF caller = "compactBucket" THEN "sleep" ELSE "poll"
               /\ cRet' = cRet
          ELSE /\ ppc' = "done"
               /\ cRet' = IF caller = "CollectLogs"
                          THEN "failed to start collection"
                          ELSE "bucket-compact failed"
    /\ UNCHANGED <<caller, pTimeout, predReadyAt, predMayFail, now, tickPending,
                   evals, ticksTaken, firstEvalAt, sawReady, errAt, remoteFail,
                   pRet, enumerated, downloaded>>
    /\ UNCHANGED notPoll

\* compactBucket: time.Sleep(30 * time.Second) before poll is called
CompactSleep ==
    /\ ppc = "sleep"
    /\ ppc' = "poll"
    /\ UNCHANGED <<caller, pTimeout, predReadyAt, predMayFail, now, tickPending,
                   evals, ticksTaken, firstEvalAt, sawReady, errAt, remoteFail,
                   pRet, enumerated, downloaded, cRet>>
    /\ UNCHANGED notPoll

\* PollStart with a first check at once, before any tick
PollStartImmediate ==
    /\ ppc = "poll"
    /\ ppc' = "select"
    /\ now' = 0
    /\ tickPending' = TRUE
    /\ UNCHANGED <<caller, pTimeout, predReadyAt, predMayFail, evals,
                   ticksTaken, firstEvalAt, sawReady, errAt, remoteFail, pRet,
                   enumerated, downloaded, cRet>>
    /\ UNCHANGED notPoll

\* poll: context.WithTimeout and time.NewTicker; the clock starts here and
\* the ticker channel is empty
PollStart ==
    /\ ppc = "poll"
    /\ ppc' = "select"
    /\ now' = 0
    /\ tickPending' = FALSE
    /\ UNCHANGED <<caller, pTimeout, predReadyAt, predMayFail, evals,
                   ticksTaken, firstEvalAt, sawReady, errAt, remoteFail, pRet,
                   enumerated, downloaded, cRet>>
    /\ UNCHANGED notPoll

\* Time passes to the next moment at which something happens. The ticker
\* sends a tick every PollInterval seconds; the channel keeps one tick and a
\* further one is dropped. A select with a ready case does not wait, so time
\* passes only while pollFunc runs or while no case of the select is ready.
TimePasses ==
    /\ \/ ppc = "eval"
       \/ ppc = "select" /\ ~tickPending /\ ~CtxDone
    /\ now < ClockCap
    /\ now' = NextEvent
    /\ tickPending' = (tickPending \/ NextEvent % PollInterval = 0)
    /\ UNCHANGED <<caller, pTimeout, predReadyAt, predMayFail, ppc, evals,
                   ticksTaken, firstEvalAt, sawReady, errAt, remoteFail, pRet,
                   enumerated, downloaded, cRet>>
    /\ UNCHANGED notPoll

\* PollSelectDone reporting the elapsed timeout as (false, nil)
PollSelectDoneAsReady ==
    /\ ppc = "select"
    /\ CtxDone
    /\ pRet' = [set |-> TRUE, timedOut |-> FALSE, err |-> "nil"]
    /\ ppc' = "pollRet"
    /\ UNCHANGED <<caller, pTimeout, predReadyAt, predMayFail, now, tickPending,
                   evals, ticksTaken, firstEvalAt, sawReady, errAt, remoteFail,
                   enumerated, downloaded, cRet>>
    /\ UNCHANGED notPoll

\* case <-ctx.Done(): return true, nil
PollSelectDone ==
    /\ ppc = "select"
    /\ CtxDone
    /\ pRet' = [set |-> TRUE, timedOut |-> TRUE, err |-> "nil"]
    /\ ppc' = "pollRet"
    /\ UNCHANGED <<caller, pTimeout, predReadyAt, predMayFail, now, tickPending,
                   evals, ticksTaken, firstEvalAt, sawReady, errAt, remoteFail,
                   enumerated, downloaded, cRet>>
    /\ UNCHANGED notPoll

\* case <-ticker.C: pollFunc is called
PollSelectTick ==
    /\ ppc = "select"
    /\ tickPending
    /\ tickPending' = FALSE
    /\ ticksTaken' = ticksTaken + 1
    /\ evals' = evals + 1
    /\ firstEvalAt' = IF firstEvalAt = -1 THEN now ELSE firstEvalAt
    /\ ppc' = "eval"
    /\ UNCHANGED <<caller, pTimeout, predReadyAt, predMayFail, now, sawReady,
                   errAt, remoteFail, pRet, enumerated, downloaded, cRet>>
    /\ UNCHANGED notPoll

\* what pollFunc returns when its remote status command has the given
\* outcome. logCollectionComplete returns (err == nil, nil), whatever made the
\* command fail; compactionComplete returns (false, err) when the command or
\* the decoding fails and the computed answer otherwise.
PollFuncResult(failed) ==
    IF caller = "CollectLogs"
    THEN [ready |-> (~failed /\ RemoteComplete), err |-> "nil"]
    ELSE IF failed
         THEN [ready |-> FALSE, err |-> "predicate error"]
         ELSE [ready |-> RemoteComplete, err |-> "nil"]

\* PollFuncReturn going on with the loop after an error of pollFunc
PollFuncReturnIgnoreErr ==
    /\ ppc = "eval"
    /\ \E failed \in {FALSE, predMayFail} :
        LET r == PollFuncResult(failed)
        IN  /\ remoteFail' = (remoteFail \/ failed)
            /\ errAt' = IF r.err # "nil" /\ errAt = 0 THEN evals ELSE errAt
            /\ sawReady' = (sawReady \/ r.ready)
            /\ IF r.ready
               THEN /\ pRet' = [set |-> TRUE, timedOut |-> FALSE, err |-> "nil"]
                    /\ ppc' = "pollRet"
               ELSE /\ pRet' = pRet
                    /\ ppc' = "select"
    /\ UNCHANGED <<caller, pTimeout, predReadyAt, predMayFail, now, tickPending,
                   evals, ticksTaken, firstEvalAt, enumerated, downloaded, cRet>>
    /\ UNCHANGED notPoll

\* ready, err := pollFunc(); if err != nil { return false, err };
\* if ready { return false, nil }; otherwise the loop goes on
PollFuncReturn ==
    /\ ppc = "eval"
    /\ \E failed \in {FALSE, predMayFail} :
        LET r == PollFuncResult(failed)
        IN  /\ remoteFail' = (remoteFail \/ failed)
            /\ errAt' = IF r.err # "nil" THEN evals ELSE errAt
            /\ sawReady' = (sawReady \/ r.ready)
            /\ IF r.err # "nil"
               THEN /\ pRet' = [set |-> TRUE, timedOut |-> FALSE, err |-> r.err]
                    /\ ppc' = "pollRet"
               ELSE IF r.ready
               THEN /\ pRet' = [set |-> TRUE, timedOut |-> FALSE, err |-> "nil"]
                    /\ ppc' = "pollRet"
               ELSE /\ pRet' = pRet
                    /\ ppc' = "select"
    /\ UNCHANGED <<caller, pTimeout, predReadyAt, predMayFail, now, tickPending,
                   evals, ticksTaken, firstEvalAt, enumerated, downloaded, cRet>>
    /\ UNCHANGED notPoll

\* AfterPoll taking a timeout of the wait for the completion
AfterPollTimeoutOk ==
    /\ ppc = "pollRet"
    /\ IF caller = "CollectLogs"
       THEN /\ ppc' = "paths" /\ cRet' = cRet
       ELSE IF pRet.err # "nil"
       THEN /\ ppc' = "done"
            /\ cRet' = "failed to poll until compaction completed"
       ELSE /\ ppc' = "done" /\ cRet' = "nil"
    /\ UNCHANGED <<caller, pTimeout, predReadyAt, predMayFail, now, tickPending,
                   evals, ticksTaken, firstEvalAt, sawReady, errAt, remoteFail,
                   pRet, enumerated, downloaded>>
    /\ UNCHANGED notPoll

\* CollectLogs: timeout, _ := poll(...); if timeout { return error }.
\* compactBucket: if err != nil { return error }; if timeout { return error };
\* return nil
AfterPoll ==
    /\ ppc = "pollRet"
    /\ IF caller = "CollectLogs"
       THEN IF pRet.timedOut
            THEN /\ ppc' = "done"
                 /\ cRet' = "timeout whilst waiting for log collection to complete"
            ELSE /\ ppc' = "paths" /\ cRet' = cRet
       ELSE IF pRet.err # "nil"
       THEN /\ ppc' = "done"
            /\ cRet' = "failed to poll until compaction completed"
       ELSE IF pRet.timedOut
       THEN /\ ppc' = "done"
            /\ cRet' = "timeout whilst waiting for bucket compaction to complete"
       ELSE /\ ppc' = "done" /\ cRet' = "nil"
    /\ UNCHANGED <<caller, pTimeout, predReadyAt, predMayFail, now, tickPending,
                   evals, ticksTaken, firstEvalAt, sawReady, errAt, remoteFail,
                   pRet, enumerated, downloaded>>
    /\ UNCHANGED notPoll

\* CollectLogs: c.collectionPaths()
CollectionPaths ==
    /\ ppc = "paths"
    /\ enumerated' = TRUE
    /\ \E ok \in BOOLEAN :
          IF ok
          THEN ppc' = "download" /\ cRet' = cRet
          ELSE ppc' = "done" /\ cRet' = "failed to determine the paths to logs"
    /\ UNCHANGED <<caller, pTimeout, predReadyAt, predMayFail, now, tickPending,
                   evals, ticksTaken, firstEvalAt, sawReady, errAt, remoteFail,
                   pRet, downloaded>>
    /\ UNCHANGED notPoll

\* CollectLogs: c.downloadLogs(paths, path), then the converted paths, nil
DownloadLogs ==
    /\ ppc = "download"
    /\ downloaded' = TRUE
    /\ ppc' = "done"
    /\ \E ok \in BOOLEAN :
          cRet' = IF ok THEN "nil" ELSE "failed to download logs"
    /\ UNCHANGED <<caller, pTimeout, predReadyAt, predMayFail, now, tickPending,
                   evals, ticksTaken, firstEvalAt, sawReady, errAt, remoteFail,
                   pRet, enumerated>>
    /\ UNCHANGED notPoll

PNext ==
    \/ StartCommand \/ CompactSleep \/ PollStart \/ TimePasses
    \/ PollSelectDone \/ PollSelectTick \/ PollFuncReturn \/ AfterPoll
    \/ CollectionPaths \/ DownloadLogs

SpecPoll == PInit /\ [][PNext]_vars

\* Time goes on, pollFunc returns, and a select whose timeout case is ready
\* again and again takes it in the end (Go's select chooses uniformly at
\* random among the ready cases).
SpecPollFair ==
    /\ SpecPoll
    /\ WF_vars(StartCommand) /\ WF_vars(CompactSleep) /\ WF_vars(PollStart)
    /\ WF_vars(TimePasses) /\ WF_vars(PollSelectTick) /\ WF_vars(PollFuncReturn)
    /\ SF_vars(PollSelectDone)
    /\ WF_vars(AfterPoll) /\ WF_vars(CollectionPaths) /\ WF_vars(DownloadLogs)

----------------------------------------------------------------------------
(* Properties of poll and its callers, checked under SpecPoll *)

\* C12: pollFunc is never called before the first poll interval has elapsed,
\* and every call of pollFunc follows the receipt of a tick of its own.
C12_NoImmediateCheck ==
    /\ evals >= 1 => firstEvalAt >= PollInterval
    /\ ppc = "eval" => now >= PollInterval
    /\ evals = ticksTaken
    /\ ticksTaken * PollInterval <= now

C12_Witness ==
    /\ ppc = "eval" /\ evals = 1 /\ now = PollInterval
    /\ firstEvalAt = PollInterval

C14_ReadyBeforeTimeout ==
    (/\ pRet.set
     /\ ~predMayFail
     /\ predReadyAt >= 0 /\ predReadyAt < pTimeout
     /\ \E k \in 1..pTimeout : k % PollInterval = 0 /\ predReadyAt <= k)
        => pRet = [set |-> TRUE, timedOut |-> FALSE, err |-> "nil"]

\* C15: a call of pollFunc that returns an error ends poll at once: poll
\* returns (false, err) with that error, pollFunc is not called again, and
\* the error is never turned into a timeout.
C15_ErrorStopsPoll ==
    /\ errAt # 0
          => /\ evals = errAt
             /\ ppc \notin {"select", "eval"}
             /\ pRet = [set |-> TRUE, timedOut |-> FALSE, err |-> "predicate error"]
    /\ (pRet.set /\ pRet.err # "nil") => errAt # 0
    /\ (ppc = "done" /\ errAt # 0)
          => cRet = "failed to poll until compaction completed"

C15_Witness ==
    /\ ppc = "done"
    /\ errAt = 2 /\ evals = 2
    /\ now < pTimeout
    /\ pRet = [set |-> TRUE, timedOut |-> FALSE, err |-> "predicate error"]

\* C16: when a remote status command of CollectLogs failed, CollectLogs does
\* not report a timeout of the wait for the log collection.
C16_RemoteFailureNotTimeout ==
    (caller = "CollectLogs" /\ ppc = "done" /\ remoteFail)
        => cRet # "timeout whilst waiting for log collection to complete"

\* C17: a timeout of poll is never a success: after it CollectLogs neither
\* enumerates nor downloads an archive and returns an error, compactBucket
\* returns an error, and either returns nil only after a call of pollFunc
\* reported true.
C17_TimeoutIsNotSuccess ==
    /\ (pRet.set /\ pRet.timedOut) => (~enumerated /\ ~downloaded)
    /\ (ppc = "done" /\ pRet.set /\ pRet.timedOut)
          => cRet \in {"timeout whilst waiting for log collection to complete",
                       "timeout whilst waiting for bucket compaction to complete"}
    /\ (ppc = "done" /\ cRet = "nil") => sawReady
    /\ (enumerated \/ downloaded) => sawReady

C17_Witness ==
    /\ ppc = "done"
    /\ caller = "CollectLogs"
    /\ pRet.set /\ pRet.timedOut
    /\ evals >= 1
    /\ ~enumerated /\ ~downloaded
    /\ cRet = "timeout whilst waiting for log collection to complete"

----------------------------------------------------------------------------
(* Properties of the backup commands and of the timer, under SpecBench *)

\* C18: a BenchmarkRestore run issues at most one backup command, in the
\* set-up before the first iteration and outside every timed section; once
\* the loop is reached exactly one was issued, whatever the iteration count;
\* the command never carries the blackhole sink flag.
C18_OneBackupBeforeRestoreLoop ==
    bKind = "restore"
        => /\ Len(backupCmds) <= 1
           /\ \A i \in 1..Len(backupCmds) :
                 /\ backupCmds[i].iter = 0
                 /\ ~backupCmds[i].timed
                 /\ ~backupCmds[i].blackhole
           /\ (bpc \in {"make", "loop"} \/ started >= 1 \/ results.allocated)
                 => Len(backupCmds) = 1

C18_Witness ==
    /\ bKind = "restore" /\ Blackhole /\ Iterations = 3
    /\ bpc = "cmdCheck" /\ bRet.kind = "ret" /\ Len(bRet.results) = 3
    /\ Len(backupCmds) = 1
    /\ ~backupCmds[1].blackhole

\* C19: when the backup command of an iteration of BenchmarkBackup is about
\* to be issued the repository holds no backup, and when a result is appended
\* the backups of its iteration have been removed.
C19_IterationStartsClean ==
    (bKind = "backup" /\ InBody)
        => /\ bpc \in {"clusterPre", "clientPre", "backup"} => repo = 0
           /\ bpc \in {"append", "ctxCheck"} => repo = 0

C19_Witness ==
    /\ bKind = "backup" /\ bpc = "backup"
    /\ iteration = 1 /\ Len(results.items) = 1
    /\ Len(backupCmds) = 1
    /\ repo = 0

\* C20: the Duration of every appended result covers the operation under
\* test only (the backup with its sync, or the restore): neither the cache
\* flushes before it nor the info query and the purge after it.
C20_DurationExcludesSetupAndCleanup ==
    \A i \in 1..Len(durations) :
        durations[i] \in (IF bKind = "backup"
                          THEN {<<"backup">>, <<"backup", "sync">>}
                          ELSE {<<"restore">>})

----------------------------------------------------------------------------
(* value.BenchmarkResult: AvgTransferRateADS, AvgTransferRateGDS *)

\* time.Second, in nanoseconds
Second == 1000000000

\* 2^24 seconds: from here on a float64 no longer resolves a nanosecond
\* beside the whole seconds
LongSeconds == 16777216

RECURSIVE Pow2(_)
Pow2(k) == IF k = 0 THEN 1 ELSE 2 * Pow2(k - 1)

\* the binary exponent of a positive integer: the k with 2^k <= n < 2^(k+1)
RECURSIVE Log2(_)
Log2(n) == IF n < 2 THEN 0 ELSE 1 + Log2(n \div 2)

\* Duration.Seconds() is float64(sec) + float64(nsec)/1e9. A float64 has a
\* 53-bit significand, so beside sec in [2^k, 2^(k+1)) it resolves steps of
\* 2^(k-52): the sum is rounded up to sec + 1 when the fraction is within
\* 2^(k-53) of one, that is when (10^9 - nsec) * 2^(53-k) <= 10^9.
SecondsRoundsUp(d) ==
    IF d.sec < 1 \/ Log2(d.sec) < 23
    THEN FALSE
    ELSE (Second - d.nsec) <= Second \div Pow2(53 - Log2(d.sec))

\* uint64(b.Duration.Seconds()): the float64 truncated towards zero
SecondsAsUint64(d) == IF SecondsRoundsUp(d) THEN d.sec + 1 ELSE d.sec

\* b.Duration < time.Second
UnderOneSecond(d) == d.sec = 0

\* AvgTransferRateADS dividing whatever the duration
AvgTransferRateADSNoGuard(d, ads) ==
    IF SecondsAsUint64(d) = 0 THEN -1 ELSE ads \div SecondsAsUint64(d)

\* func (b *BenchmarkResult) AvgTransferRateADS() uint64
AvgTransferRateADS(d, ads) ==
    IF UnderOneSecond(d) THEN ads ELSE ads \div SecondsAsUint64(d)

\* func (b *BenchmarkResult) AvgTransferRateGDS(blueprint) uint64
AvgTransferRateGDS(d, size, count) ==
    IF UnderOneSecond(d)
    THEN size * count
    ELSE (size * count) \div SecondsAsUint64(d)

\* the durations tried: up to MaxSeconds whole seconds and around 2^24
\* seconds, with a fraction of nothing, one nanosecond, or all but one
Durations ==
    [sec : (0..MaxSeconds) \cup {LongSeconds - 1, LongSeconds},
     nsec : {0, 1, Second - 1}]

\* the sizes tried: small ones and one as large as the long durations
Sizes == (0..MaxSize) \cup {LongSeconds}

RInit ==
    /\ TrimIdle
    /\ LogIdle
    /\ ConnIdle
    /\ CmdIdle
    /\ TaskIdle
    /\ NodeIdle
    /\ ProvIdle
    /\ BenchIdle
    /\ ClusterIdle
    /\ LoadIdle
    /\ PollIdle
    /\ rDuration \in Durations
    /\ rADS \in Sizes
    /\ rSize \in {0, 1, 2, 4096}
    /\ rItems \in {0, 1, 3, 4096}
    /\ rpc = "ads"
    /\ rOutADS = -1
    /\ rOutGDS = -1

\* report: result.AvgTransferRateADS()
RateADS ==
    /\ rpc = "ads"
    /\ rOutADS' = AvgTransferRateADS(rDuration, rADS)
    /\ rpc' = "gds"
    /\ UNCHANGED <<rDuration, rADS, rSize, rItems, rOutGDS>>
    /\ UNCHANGED notRate

\* report: result.AvgTransferRateGDS(blueprint)
RateGDS ==
    /\ rpc = "gds"
    /\ rOutGDS' = AvgTransferRateGDS(rDuration, rSize, rItems)
    /\ rpc' = "done"
    /\ UNCHANGED <<rDuration, rADS, rSize, rItems, rOutADS>>
    /\ UNCHANGED notRate

RNext == RateADS \/ RateGDS

SpecRate == RInit /\ [][RNext]_vars

\* C21 as stated: for a non-negative duration and size both rates are the size when
\* the duration is under one second and the size divided by the whole number
\* of elapsed seconds otherwise, the generated size being size times count;
\* the results are non-negative.
C21_RateIsSizeOverWholeSeconds ==
    rpc = "done"
        => /\ rOutADS = (IF rDuration.sec = 0 THEN rADS
                         ELSE rADS \div rDuration.sec)
           /\ rOutGDS = (IF rDuration.sec = 0 THEN rSize * rItems
                         ELSE (rSize * rItems) \div rDuration.sec)
           /\ rOutADS >= 0 /\ rOutGDS >= 0

\* C21 as amended: both rates are the size when the duration is under one
\* second; otherwise they are the size divided by uint64(Duration.Seconds()),
\* which is the whole number of elapsed seconds below 2^24 seconds and
\* either that or one more from 2^24 seconds on; the divisor is never zero
\* and the result lies between zero and the size.
C21_RateIsSizeOverTruncatedSeconds ==
    rpc = "done"
        => /\ rDuration.sec = 0
                => (rOutADS = rADS /\ rOutGDS = rSize * rItems)
           /\ (rDuration.sec >= 1 /\ rDuration.sec < LongSeconds)
                => /\ rOutADS = rADS \div rDuration.sec
                   /\ rOutGDS = (rSize * rItems) \div rDuration.sec
           /\ rDuration.sec >= LongSeconds
                => /\ rOutADS \in {rADS \div rDuration.sec,
                                   rADS \div (rDuration.sec + 1)}
                   /\ rOutGDS \in {(rSize * rItems) \div rDuration.sec,
                                   (rSize * rItems) \div (rDuration.sec + 1)}
           /\ rOutADS >= 0 /\ rOutADS <= rADS
           /\ rOutGDS >= 0 /\ rOutGDS <= rSize * rItems

C21_Witness ==
    /\ rpc = "done"
    /\ rDuration = [sec |-> LongSeconds, nsec |-> Second - 1]
    /\ rADS = LongSeconds /\ rOutADS = 0
    /\ rSize = 4096 /\ rItems = 4096 /\ rOutGDS = 0

----------------------------------------------------------------------------
(* cmd.provision and Cluster.LoadData *)

\* hofp.NewPool(hofp.Options{Size: 2})
ProvisionPoolSize == 2

\* provisioners: []provisioner{cluster, client} unless --load-only
Provisioners == IF loadOnly THEN {} ELSE 1..2

VQueued == {n \in 1..2 : vUnit[n] = "queued"}
VRunning == {n \in 1..2 : vUnit[n] = "run"}

\* the steps of LoadData in program order: the compaction only when asked for
LoadDataSteps ==
    <<"flushBucket", "evictionTo0", "loadData", "evictionTo30">>
        \o (IF compact THEN <<"compactBucket">> ELSE <<>>)

\* the eviction percentage a step of LoadData sets, -1 when it sets none
StepEviction(step) ==
    CASE step = "evictionTo0" -> 0
      [] step = "evictionTo30" -> 30
      [] OTHER -> -1

VInit ==
    /\ TrimIdle
    /\ LogIdle
    /\ ConnIdle
    /\ CmdIdle
    /\ TaskIdle
    /\ NodeIdle
    /\ BenchIdle
    /\ ClusterIdle
    /\ LoadIdle
    /\ PollIdle
    /\ RateIdle
    /\ loadOnly \in BOOLEAN
    /\ compact \in BOOLEAN
    /\ vpc = "queue"
    /\ vqi = 1
    /\ vUnit = [n \in 1..2 |-> "none"]
    /\ vPoolErr = 0
    /\ vLog = <<>>
    /\ evict \in {0, 30}
    /\ vRet = "running"

\* for _, p := range provisioners { if queue(p) != nil { break } }: the next
\* provisioner is accepted, or the loop is over
ProvisionQueue ==
    /\ vpc = "queue"
    /\ IF vqi \in Provisioners
       THEN /\ vPoolErr = 0
            /\ Cardinality(VQueued) < ProvisionPoolSize
            /\ vUnit' = [vUnit EXCEPT ![vqi] = "queued"]
            /\ vqi' = vqi + 1
            /\ vpc' = vpc
       ELSE /\ vpc' = "stop"
            /\ UNCHANGED <<vUnit, vqi>>
    /\ UNCHANGED <<loadOnly, compact, vPoolErr, vLog, evict, vRet>>
    /\ UNCHANGED notProv

\* queue(p) != nil: break
ProvisionBreak ==
    /\ vpc = "queue"
    /\ vqi \in Provisioners
    /\ vPoolErr # 0
    /\ vpc' = "stop"
    /\ UNCHANGED <<loadOnly, compact, vqi, vUnit, vPoolErr, vLog, evict, vRet>>
    /\ UNCHANGED notProv

\* a worker of the pool takes the oldest accepted unit: p.Provision() runs
ProvisionWorkerTake ==
    /\ VQueued # {}
    /\ Cardinality(VRunning) < ProvisionPoolSize
    /\ LET n == CHOOSE m \in VQueued : \A k \in VQueued : m <= k
       IN  vUnit' = [vUnit EXCEPT ![n] = "run"]
    /\ UNCHANGED <<loadOnly, compact, vpc, vqi, vPoolErr, vLog, evict, vRet>>
    /\ UNCHANGED notProv

\* Cluster.Provision or BackupClient.Provision returns, nil or an error
ProvisionReturns ==
    \E n \in VRunning : \E ok \in BOOLEAN :
        /\ vUnit' = [vUnit EXCEPT ![n] = IF ok THEN "done" ELSE "failed"]
        /\ vPoolErr' = IF ok \/ vPoolErr # 0 THEN vPoolErr ELSE n
        /\ UNCHANGED <<loadOnly, compact, vpc, vqi, vLog, evict, vRet>>
        /\ UNCHANGED notProv

\* ProvisionStop going on to LoadData whatever pool.Stop() returned
ProvisionStopIgnoreErr ==
    /\ vpc = "stop"
    /\ VQueued = {} /\ VRunning = {}
    /\ vpc' = "loadData"
    /\ vRet' = vRet
    /\ UNCHANGED <<loadOnly, compact, vqi, vUnit, vPoolErr, vLog, evict>>
    /\ UNCHANGED notProv

\* err = pool.Stop(); if err != nil { return ... }: Stop waits for the
\* accepted units; with no unit at all it returns nil at once
ProvisionStop ==
    /\ vpc = "stop"
    /\ VQueued = {} /\ VRunning = {}
    /\ IF vPoolErr # 0
       THEN vpc' = "exit" /\ vRet' = "unexpected error whilst provisioning"
       ELSE vpc' = "loadData" /\ vRet' = vRet
    /\ UNCHANGED <<loadOnly, compact, vqi, vUnit, vPoolErr, vLog, evict>>
    /\ UNCHANGED notProv

\* LoadDataStep undoing the eviction setting when a step fails
LoadDataStepRollback ==
    /\ vpc = "loadData"
    /\ LET step == LoadDataSteps[Len(vLog) + 1]
           last == Len(vLog) + 1 = Len(LoadDataSteps)
       IN  /\ vLog' = Append(vLog, step)
           /\ \E ok \in BOOLEAN :
                IF ok
                THEN /\ evict' = IF StepEviction(step) >= 0
                                 THEN StepEviction(step) ELSE evict
                     /\ vpc' = IF last THEN "exit" ELSE vpc
                     /\ vRet' = IF last THEN "nil" ELSE vRet
                ELSE /\ evict' = 30
                     /\ vpc' = "exit"
                     /\ vRet' = "failed to load test dataset"
    /\ UNCHANGED <<loadOnly, compact, vqi, vUnit, vPoolErr>>
    /\ UNCHANGED notProv

\* cluster.LoadData(compact): the next step runs; an error is returned at
\* once, and after the last step (return nil) the command returns nil. A
\* failing eviction step may or may not have reached nodes[0].
LoadDataStep ==
    /\ vpc = "loadData"
    /\ LET step == LoadDataSteps[Len(vLog) + 1]
           last == Len(vLog) + 1 = Len(LoadDataSteps)
       IN  /\ vLog' = Append(vLog, step)
           /\ \E ok \in BOOLEAN :
                IF ok
                THEN /\ evict' = IF StepEviction(step) >= 0
                                 THEN StepEviction(step) ELSE evict
                     /\ vpc' = IF last THEN "exit" ELSE vpc
                     /\ vRet' = IF last THEN "nil" ELSE vRet
                ELSE /\ evict' \in IF StepEviction(step) >= 0
                                   THEN {evict, StepEviction(step)} ELSE {evict}
                     /\ vpc' = "exit"
                     /\ vRet' = "failed to load test dataset"
    /\ UNCHANGED <<loadOnly, compact, vqi, vUnit, vPoolErr>>
    /\ UNCHANGED notProv

VNext ==
    \/ ProvisionQueue \/ ProvisionBreak \/ ProvisionWorkerTake
    \/ ProvisionReturns \/ ProvisionStop \/ LoadDataStep

SpecProvision == VInit /\ [][VNext]_vars

\* C22: LoadData is started only after the pool has drained: without
\* --load-only both Provision calls have returned nil by then, and after a
\* failed Provision it is never started; with --load-only no Provision is
\* invoked, Stop returns nil and LoadData is started.
C22_LoadAfterProvision ==
    /\ (vpc = "loadData" \/ vLog # <<>>)
          => IF loadOnly
             THEN \A n \in 1..2 : vUnit[n] = "none"
             ELSE \A n \in 1..2 : vUnit[n] = "done"
    /\ (\E n \in 1..2 : vUnit[n] = "failed") => (vLog = <<>> /\ vpc # "loadData")
    /\ loadOnly => (\A n \in 1..2 : vUnit[n] = "none") /\ vPoolErr = 0
    /\ (loadOnly /\ vpc = "exit") => vLog # <<>>

C22_Witness ==
    /\ ~loadOnly
    /\ vUnit = [n \in 1..2 |-> "done"]
    /\ vLog = <<"flushBucket">>
    /\ vpc = "loadData"

\* C28: LoadData runs flush, eviction to 0, load, eviction to 30 and, only
\* when asked for, the compaction in that order; a failing step is the last
\* one executed and makes the command return an error; nothing is rolled
\* back, so after a failing load step the eviction percentage is still 0.
C28_LoadDataNoRollback ==
    /\ IsPrefix(vLog, LoadDataSteps)
    /\ (vpc = "exit" /\ vRet = "nil") => vLog = LoadDataSteps
    /\ (vpc = "exit" /\ vLog # <<>> /\ vLog # LoadDataSteps) => vRet # "nil"
    /\ (vpc = "exit" /\ vRet # "nil" /\ vLog # <<>>
            /\ vLog[Len(vLog)] = "loadData")
          => evict = 0
    /\ ~compact => (\A i \in 1..Len(vLog) : vLog[i] # "compactBucket")

C28_Witness ==
    /\ vpc = "exit"
    /\ vLog = <<"flushBucket", "evictionTo0", "loadData">>
    /\ vRet = "failed to load test dataset"
    /\ evict = 0

----------------------------------------------------------------------------
(* Properties of signalHandler, checked under SpecBench *)

\* C23: the context of signalHandler is cancelled at most once, and only
\* after a SIGINT was received; once cancelled it stays cancelled; from
\* signal.Stop on the handler receives no further interrupt.
C23_CancelOnceAndForGood ==
    /\ [](/\ cancels <= 1
          /\ ctxErr <=> cancels = 1
          /\ ctxErr => sigints >= 1
          /\ sigpc \in {"cancel", "done"} => (~sigNotify /\ sigStream = 0))
    /\ [][ctxErr => ctxErr']_vars

C23_Witness ==
    /\ ctxErr /\ cancels = 1
    /\ sigints = 2
    /\ bpc = "killed"
    /\ sigpc = "done"

----------------------------------------------------------------------------
(* Further properties of the fan-out, checked under SpecCluster *)

\* C24: forEachNode returns nil only when the loop went over every node, the
\* unit of every node was invoked and has returned nil, and no unit is
\* waiting, running or failed.
C24_NilMeansAllSucceeded ==
    (fpc = "ret" /\ fret = 0)
        => /\ \A n \in Nodes : unit[n].st = "done"
           /\ fi = nodesN + 1
           /\ poolErr = 0 /\ errOrder = <<>>

C24_Witness ==
    /\ fpc = "ret" /\ fret = 0
    /\ nodesN = 3 /\ fkind = "provisionNode"
    /\ \A n \in Nodes : unit[n].st = "done"

\* the distinct commands named c that were issued, and how many were issued
IssuedOf(c) == {r \in BagToSet(issued) : r.cmd = c}
CountOf(c) == BagCardinality([r \in IssuedOf(c) |-> issued[r]])

\* C25: in Cluster.Provision every server-add goes over the leader's
\* connection, is issued by the unit of a non-leader node, names that node's
\* host and is issued once; the leader's unit issues nothing; once the join
\* fan-out has returned nil there are exactly N-1 server-adds, one for each
\* non-leader host; cluster-init and rebalance are issued at most once, by
\* the caller and over the leader's connection, and exactly once each when
\* Provision returns nil.
C25_JoinPhase ==
    (op = "Provision") =>
        /\ \A r \in IssuedOf("server-add") :
              /\ r.conn = 1 /\ r.by = r.host /\ r.host \in 2..nodesN
              /\ issued[r] = 1
        /\ (fkind = "serverAdd") =>
              (unit[1].st \in {"none", "queued", "done"} /\ unit[1].step = 0)
        /\ (fkind = "serverAdd" /\ fpc \in {"ret", "idle"} /\ fret = 0) =>
              /\ CountOf("server-add") = nodesN - 1
              /\ \A n \in 2..nodesN :
                    \E r \in IssuedOf("server-add") : r.host = n
        /\ \A c \in {"clusterInit", "rebalance"} :
              /\ CountOf(c) <= 1
              /\ \A r \in IssuedOf(c) : r.conn = 1 /\ r.by = 0 /\ r.host = 0
              /\ (opRet = "nil") => CountOf(c) = 1

C25_Witness ==
    /\ op = "Provision" /\ opRet = "nil"
    /\ nodesN = 3
    /\ CountOf("server-add") = 2
    /\ CountOf("clusterInit") = 1 /\ CountOf("rebalance") = 1
    /\ unit[1] = [st |-> "done", step |-> 0]

----------------------------------------------------------------------------
(* Cluster.provisionNode on one node: Node.provision (installDeps,          *)
(* uninstallCB, installCB, the sleep), Node.createDataPath and              *)
(* Node.initializeCB. Each remote step either succeeds or returns an error. *)

NInit ==
    /\ TrimIdle
    /\ LogIdle
    /\ ConnIdle
    /\ CmdIdle
    /\ TaskIdle
    /\ BenchIdle
    /\ ClusterIdle
    /\ LoadIdle
    /\ PollIdle
    /\ RateIdle
    /\ ProvIdle
    /\ pkgInstalled \in BOOLEAN
    /\ installDir \in BOOLEAN
    /\ archive \in BOOLEAN
    /\ DataPath \in BOOLEAN
    /\ npc = "installDeps"
    /\ nLog = <<>>
    /\ nRet = "running"

\* a step whose error is not looked at
NodeExecIgnoresError(step, next, ok) ==
    /\ npc = step
    /\ nLog' = Append(nLog, [step |-> step, ok |-> ok])
    /\ npc' = next
    /\ nRet' = IF next = "ret" THEN "nil" ELSE nRet

\* err := step(); if err != nil { return errors.Wrap(err, ...) }: the step
\* runs; on success the next statement follows (return nil after the last
\* one), on an error the function returns it wrapped, and so does its caller
NodeExec(step, next, ok) ==
    /\ npc = step
    /\ nLog' = Append(nLog, [step |-> step, ok |-> ok])
    /\ IF ok
       THEN /\ npc' = next
            /\ nRet' = IF next = "ret" THEN "nil" ELSE nRet
       ELSE /\ npc' = "ret"
            /\ nRet' = step

\* n.installDeps(): n.client.InstallPackages(dependencies)
InstallDeps ==
    \E ok \in BOOLEAN :
        /\ NodeExec("installDeps", "uninstall", ok)
        /\ UNCHANGED <<pkgInstalled, installDir, archive, DataPath>>
        /\ UNCHANGED notNode

\* uninstallCB going on to the upload without purging the install directory
UninstallPackagesNoPurge ==
    \E ok \in BOOLEAN :
        /\ NodeExec("uninstall", "upload", ok)
        /\ pkgInstalled' = IF ok THEN FALSE ELSE pkgInstalled
        /\ UNCHANGED <<installDir, archive, DataPath>>
        /\ UNCHANGED notNode

\* uninstallCB: n.client.UninstallPackages("couchbase-server")
UninstallPackages ==
    \E ok \in BOOLEAN :
        /\ NodeExec("uninstall", "removeDir", ok)
        /\ pkgInstalled' = IF ok THEN FALSE ELSE pkgInstalled
        /\ UNCHANGED <<installDir, archive, DataPath>>
        /\ UNCHANGED notNode

\* uninstallCB: n.client.RemoveDirectory(value.CBInstallDirectory)
RemoveDirectory ==
    \E ok \in BOOLEAN :
        /\ NodeExec("removeDir", "upload", ok)
        /\ installDir' = IF ok THEN FALSE ELSE installDir
        /\ UNCHANGED <<pkgInstalled, archive, DataPath>>
        /\ UNCHANGED notNode

\* installCB: n.client.SecureUpload(localPath, remotePath)
SecureUpload ==
    \E ok \in BOOLEAN :
        /\ NodeExec("upload", "install", ok)
        /\ archive' = IF ok THEN TRUE ELSE archive
        /\ UNCHANGED <<pkgInstalled, installDir, DataPath>>
        /\ UNCHANGED notNode

\* installCB: n.client.InstallPackageAt(remotePath)
InstallPackageAt ==
    \E ok \in BOOLEAN :
        /\ NodeExec("install", "removeArchive", ok)
        /\ pkgInstalled' = IF ok THEN TRUE ELSE pkgInstalled
        /\ installDir' = IF ok THEN TRUE ELSE installDir
        /\ UNCHANGED <<archive, DataPath>>
        /\ UNCHANGED notNode

\* installCB: n.client.RemoveFile(remotePath)
RemoveFile ==
    \E ok \in BOOLEAN :
        /\ NodeExec("removeArchive", "sleep", ok)
        /\ archive' = IF ok THEN FALSE ELSE archive
        /\ UNCHANGED <<pkgInstalled, installDir, DataPath>>
        /\ UNCHANGED notNode

\* provision: time.Sleep(30 * time.Second); return nil. Then createDataPath
\* is entered: if n.blueprint.DataPath == "" { return nil }
ProvisionSleep ==
    /\ npc = "sleep"
    /\ npc' = IF DataPath THEN "mkdir" ELSE "nodeInit"
    /\ UNCHANGED <<pkgInstalled, installDir, archive, DataPath, nLog, nRet>>
    /\ UNCHANGED notNode

\* createDataPath: mkdir -p DataPath
Mkdir ==
    \E ok \in BOOLEAN :
        /\ NodeExec("mkdir", "chown", ok)
        /\ UNCHANGED <<pkgInstalled, installDir, archive, DataPath>>
        /\ UNCHANGED notNode

\* createDataPath: chown -R couchbase:couchbase DataPath
Chown ==
    \E ok \in BOOLEAN :
        /\ NodeExec("chown", "nodeInit", ok)
        /\ UNCHANGED <<pkgInstalled, installDir, archive, DataPath>>
        /\ UNCHANGED notNode

\* initializeCB: couchbase-cli node-init; provisionNode returns nil after it
NodeInit ==
    \E ok \in BOOLEAN :
        /\ NodeExec("nodeInit", "ret", ok)
        /\ UNCHANGED <<pkgInstalled, installDir, archive, DataPath>>
        /\ UNCHANGED notNode

NNext ==
    \/ InstallDeps \/ UninstallPackages \/ RemoveDirectory \/ SecureUpload
    \/ InstallPackageAt \/ RemoveFile \/ ProvisionSleep \/ Mkdir \/ Chown
    \/ NodeInit

SpecNode == NInit /\ [][NNext]_vars

----------------------------------------------------------------------------
(* Properties of provisionNode, checked under SpecNode *)

\* the positions of the log where step s was run, and where it succeeded
RanAt(s) == {i \in 1..Len(nLog) : nLog[i].step = s}
OkAt(s) == {i \in RanAt(s) : nLog[i].ok}

\* the steps in program order
NodeSteps ==
    <<"installDeps", "uninstall", "removeDir", "upload", "install",
      "removeArchive", "mkdir", "chown", "nodeInit">>

\* C26: whatever the node looked like before, the package install is run
\* only after the uninstall and then the removal of the install directory
\* have succeeded in the same call, and at that moment the package is not
\* installed and the install directory does not exist.
C26_CleanSlateBeforeInstall ==
    /\ \A i \in RanAt("install") :
          /\ \E u \in OkAt("uninstall") : \E d \in OkAt("removeDir") :
                u < d /\ d < i
    /\ (npc = "install") => (~pkgInstalled /\ ~installDir)

C26_Witness ==
    /\ RanAt("install") # {}
    /\ OkAt("uninstall") # {} /\ OkAt("removeDir") # {}
    /\ nRet = "nil"
    /\ pkgInstalled /\ installDir

\* C27: the step that returned an error is the last step that was run, every
\* step is run at most once and in program order, and the operation has then
\* returned that step's error; it returns nil only when no step failed.
C27_FirstFailureAborts ==
    /\ \A i \in 1..Len(nLog) :
          ~nLog[i].ok => (i = Len(nLog) /\ npc = "ret" /\ nRet = nLog[i].step)
    /\ \A i, j \in 1..Len(nLog) :
          i < j => \E a, b \in 1..Len(NodeSteps) :
                      a < b /\ NodeSteps[a] = nLog[i].step
                            /\ NodeSteps[b] = nLog[j].step
    /\ (nRet = "nil") =>
          (npc = "ret" /\ \A i \in 1..Len(nLog) : nLog[i].ok)
    /\ (npc = "ret") => (nRet # "running")

C27_Witness ==
    /\ npc = "ret" /\ nRet = "upload"
    /\ Len(nLog) = 4
    /\ ~nLog[4].ok /\ nLog[4].step = "upload"

----------------------------------------------------------------------------
(* Further properties of the benchmark loop, checked under SpecBench *)

\* the positions of step s among the steps of the current iteration
StepsAt(s) == {i \in 1..Len(bSteps) : bSteps[i] = s}

\* C29: in an iteration of BenchmarkRestore without Blackhole the bucket
\* flush is the first step and has returned without error before the cache
\* flushes and the restore; with Blackhole no bucket flush is issued at all.
C29_FlushBucketUnlessBlackhole ==
    /\ Blackhole => (StepsAt("flushBucket") = {} /\ bpc # "flushBucket")
    /\ (bKind = "backup") => (StepsAt("flushBucket") = {} /\ bpc # "flushBucket")
    /\ (bKind = "restore" /\ ~Blackhole) =>
          /\ StepsAt("flushBucket") \subseteq {1}
          /\ \A s \in {"clusterFlushCaches", "clientFlushCaches", "restore"} :
                StepsAt(s) # {} =>
                    (StepsAt("flushBucket") = {1} /\ bRet.err # "flushBucket")
          /\ bpc \in {"clusterPre", "clientPre", "restore"} =>
                (StepsAt("flushBucket") = {1} /\ bRet.kind = "none")

C29_Witness ==
    /\ bKind = "restore" /\ ~Blackhole
    /\ iteration = 1 /\ bpc = "append"
    /\ bSteps = <<"flushBucket", "clusterFlushCaches", "clientFlushCaches",
                  "restore">>

\* C30: the operation under test of an iteration is issued only right after
\* the cache flush of the cluster and then that of the backup client, both
\* without error; after a failed cache flush the iteration has no operation
\* under test and the benchmark has returned.
C30_OperationAfterBothFlushes ==
    /\ \A i \in StepsAt(bKind) :
          /\ i >= 3
          /\ bSteps[i - 2] = "clusterFlushCaches"
          /\ bSteps[i - 1] = "clientFlushCaches"
    /\ (bpc = bKind) =>
          /\ bRet.kind = "none"
          /\ Len(bSteps) >= 2
          /\ bSteps[Len(bSteps) - 1] = "clusterFlushCaches"
          /\ bSteps[Len(bSteps)] = "clientFlushCaches"
    /\ (bRet.err \in {"clusterFlushCaches", "clientFlushCaches"}) =>
          /\ StepsAt(bKind) = {}
          /\ bpc # bKind
          /\ bSteps[Len(bSteps)] = bRet.err

C30_Witness ==
    /\ bKind = "backup"
    /\ started = 2
    /\ bRet.err = "clientFlushCaches"
    /\ bSteps = <<"clusterFlushCaches", "clientFlushCaches">>

----------------------------------------------------------------------------
(* Cluster.compactionComplete over the task list the cluster reports *)

\* the values of the fields "type" and "status" that matter, and one other
TaskTypes == {"rebalance", "bucket_compaction", "xdcr"}
TaskStatuses == {"running", "notRunning"}
Tasks == [Type : TaskTypes, Status : TaskStatuses]

\* the task lists of up to n tasks
TaskLists(n) == UNION {[1..k -> Tasks] : k \in 0..n}

\* compactionComplete answering from the first task alone
CompactionCompleteFirstTask(list) ==
    IF \E i \in 1..Len(list) :
          list[i].Type = "bucket_compaction" /\ list[i].Status = "running"
    THEN [ok |-> FALSE, err |-> "nil"]
    ELSE [ok |-> (Len(list) >= 1 /\ list[1].Type = "rebalance"), err |-> "nil"]

\* for _, task := range decoded { if running compaction { return false, nil } }
\* return len(decoded) == 1 && decoded[0].Type == "rebalance", nil
CompactionComplete(list) ==
    IF \E i \in 1..Len(list) :
          list[i].Type = "bucket_compaction" /\ list[i].Status = "running"
    THEN [ok |-> FALSE, err |-> "nil"]
    ELSE [ok |-> (Len(list) = 1 /\ list[1].Type = "rebalance"), err |-> "nil"]

TInit ==
    /\ TrimIdle
    /\ LogIdle
    /\ ConnIdle
    /\ CmdIdle
    /\ BenchIdle
    /\ ClusterIdle
    /\ LoadIdle
    /\ PollIdle
    /\ RateIdle
    /\ ProvIdle
    /\ NodeIdle
    /\ decoded \in TaskLists(MaxTasks)
    /\ ccpc = "call"
    /\ ccRet = [ok |-> FALSE, err |-> "nil"]

\* poll calls c.compactionComplete(), the response was fetched and decoded
CompactionCheck ==
    /\ ccpc = "call"
    /\ ccRet' = CompactionComplete(decoded)
    /\ ccpc' = "ret"
    /\ UNCHANGED decoded
    /\ UNCHANGED notTask

TNext == CompactionCheck

SpecTasks == TInit /\ [][TNext]_vars

\* C31: compactionComplete returns true, without error, exactly for the list
\* of one task whose type is rebalance (which then has no running
\* bucket_compaction task); for every other list, the empty one and those of
\* several tasks included, it returns false without error, the answer on
\* which poll goes on waiting.
C31_CompleteIsOneRebalanceTask ==
    (ccpc = "ret") =>
        /\ ccRet.err = "nil"
        /\ ccRet.ok <=>
              /\ ~\E i \in 1..Len(decoded) :
                     /\ decoded[i].Type = "bucket_compaction"
                     /\ decoded[i].Status = "running"
              /\ Len(decoded) = 1
              /\ decoded[1].Type = "rebalance"

C31_Witness ==
    /\ ccpc = "ret" /\ ~ccRet.ok
    /\ Len(decoded) = 2
    /\ decoded[1].Type = "rebalance" /\ decoded[2].Type = "rebalance"

----------------------------------------------------------------------------
(* value.NewCommand: fmt.Sprintf, then the three strings.ReplaceAll.       *)
(* A string is a sequence of characters; each character is named.          *)

\* the characters of a template: the three that NewCommand looks for, the
\* space and one other; "%s" is the verb
Chars == {"backslash", "newline", "tab", "space", "c"}
Verb == "%s"

\* the characters of an argument
ArgChars == {"backslash", "newline", "c"}

\* the strings over alphabet of up to n characters
Strings(alphabet, n) == UNION {[1..k -> alphabet] : k \in 0..n}

\* fmt.Sprintf(format, args...): a verb is replaced by the next argument, by
\* %!s(MISSING) when there is none left; arguments that no verb used are
\* appended as %!(EXTRA string=...)
RECURSIVE Sprintf(_, _)
Sprintf(f, a) ==
    IF f = <<>>
    THEN IF a = <<>> THEN <<>>
         ELSE <<"%!(EXTRA string=">> \o a[1] \o <<")">>
    ELSE IF f[1] = Verb
         THEN IF a = <<>>
              THEN <<"%!s(MISSING)">> \o Sprintf(Tail(f), a)
              ELSE a[1] \o Sprintf(Tail(f), Tail(a))
         ELSE <<f[1]>> \o Sprintf(Tail(f), a)

\* old is a prefix of s
HasPrefix(s, old) == Len(old) <= Len(s) /\ SubSeq(s, 1, Len(old)) = old

\* strings.ReplaceAll(s, old, ""): the non-overlapping occurrences of old,
\* found from the left, are removed
RECURSIVE ReplaceAll(_, _)
ReplaceAll(s, old) ==
    IF s = <<>> THEN <<>>
    ELSE IF HasPrefix(s, old)
         THEN ReplaceAll(SubSeq(s, Len(old) + 1, Len(s)), old)
         ELSE <<s[1]>> \o ReplaceAll(Tail(s), old)

\* the replacements of NewCommand without the one of the newline
StripKeepsNewline(s) ==
    ReplaceAll(ReplaceAll(s, <<"backslash", "newline">>), <<"tab">>)

\* command = strings.ReplaceAll(command, "\\\n", ""), then "\n", then "\t"
Strip(s) ==
    ReplaceAll(ReplaceAll(ReplaceAll(s, <<"backslash", "newline">>),
                          <<"newline">>),
               <<"tab">>)

MInit ==
    /\ TrimIdle
    /\ LogIdle
    /\ ConnIdle
    /\ BenchIdle
    /\ ClusterIdle
    /\ LoadIdle
    /\ PollIdle
    /\ RateIdle
    /\ ProvIdle
    /\ NodeIdle
    /\ TaskIdle
    /\ format \in Strings(Chars \cup {Verb}, MaxFormatLen)
    /\ args \in {<<>>} \cup {<<a>> : a \in Strings(ArgChars, MaxArgLen)}
    /\ cpc = "call"
    /\ command = <<>>
    /\ restripped = <<>>

\* NewCommand(format, args...)
NewCommand ==
    /\ cpc = "call"
    /\ command' = Strip(Sprintf(format, args))
    /\ cpc' = "made"
    /\ UNCHANGED <<format, args, restripped>>
    /\ UNCHANGED notCmd

\* the three replacements applied to the command that was returned
StripAgain ==
    /\ cpc = "made"
    /\ restripped' = Strip(command)
    /\ cpc' = "again"
    /\ UNCHANGED <<format, args, command>>
    /\ UNCHANGED notCmd

MNext == NewCommand \/ StripAgain

SpecCommand == MInit /\ [][MNext]_vars

\* the characters of s other than those of set gone, in their order
RECURSIVE Without(_, _)
Without(s, gone) ==
    IF s = <<>> THEN <<>>
    ELSE IF s[1] \in gone THEN Without(Tail(s), gone)
         ELSE <<s[1]>> \o Without(Tail(s), gone)

----------------------------------------------------------------------------
(* The shares channel of loadData, checked under SpecLoadFair *)

\* the bag of the elements of a sequence
RECURSIVE SeqBag(_)
SeqBag(s) == IF s = <<>> THEN EmptyBag ELSE SetToBag({s[1]}) (+) SeqBag(Tail(s))

\* the units that have received a share
Received == {n \in LdNodes : ldUnit[n].st \in {"run", "done", "failed"}}

\* the shares received by the units of the nodes 1..k, as a bag
RECURSIVE ConsumedUpTo(_)
ConsumedUpTo(k) ==
    IF k = 0 THEN EmptyBag
    ELSE (IF k \in Received THEN SetToBag({ldUnit[k].share}) ELSE EmptyBag)
         (+) ConsumedUpTo(k - 1)

\* the shares loadData sends, as a bag
Prepared == SeqBag([n \in LdNodes |-> ExpectedShare(n)])

\* the channel never holds more than its capacity len(c.nodes); after the
\* sends it holds one share per node less one per unit that has received; a
\* unit that is about to receive finds a share; a unit holds a share exactly
\* when it has received; the shares received and those left in the channel
\* are together the shares sent
SharesAccounted ==
    /\ Len(items) <= ldN
    /\ (ldpc \notin {"loop", "last"}) =>
          /\ Len(items) = ldN - Cardinality(Received)
          /\ ConsumedUpTo(ldN) (+) SeqBag(items) = Prepared
    /\ \A n \in LdNodes :
          /\ (ldUnit[n].st = "invoked") => items # <<>>
          /\ (ldUnit[n].share # -1) <=> (n \in Received)
    /\ (Cardinality(Received) = ldN) =>
          (items = <<>> /\ ConsumedUpTo(ldN) = Prepared)

\* C33: no send and no receive on the shares channel ever blocks: the shares
\* are accounted for as above in every state, and loadData returns in every
\* run, also when the fan-out stopped early and shares stay in the channel.
C33_NoUnitBlocksOnShares == []SharesAccounted /\ <>(ldpc = "done")

C33_Witness ==
    /\ ldpc = "done" /\ ldRet = "loader failed"
    /\ ldN = 3 /\ ldCPU = 1
    /\ Len(items) = 2
    /\ Cardinality(Received) = 1

----------------------------------------------------------------------------
(* nodes.NewCluster: one connect unit per configured host, over the pool *)

\* the indexes of blueprint.Nodes
Hosts == 1..cnN

\* hofp.Options{Size: maths.Min(system.NumCPU(), len(blueprint.Nodes))}
CnPoolSize == Min(cnCPU, cnN)

CnQueued == {n \in Hosts : cnUnit[n] = "queued"}
CnRunning == {n \in Hosts : cnUnit[n] = "run"}

KInit ==
    /\ TrimIdle
    /\ LogIdle
    /\ BenchIdle
    /\ ClusterIdle
    /\ LoadIdle
    /\ PollIdle
    /\ RateIdle
    /\ ProvIdle
    /\ NodeIdle
    /\ TaskIdle
    /\ CmdIdle
    /\ cnN \in 1..MaxNodes
    /\ cnCPU \in 1..MaxCPU
    /\ cnpc = "loop"
    /\ idx = 1
    /\ cnUnit = [n \in Hosts |-> "none"]
    /\ nodes = [n \in Hosts |-> 0]
    /\ cnPoolErr = 0
    /\ cnRet = "running"

\* for idx, nb := range blueprint.Nodes { if queue(idx, nb) != nil { break } }:
\* the unit connect(idx, nb) is accepted; after the last one pool.Stop()
ConnectQueue ==
    /\ cnpc = "loop"
    /\ idx <= cnN
    /\ cnPoolErr = 0
    /\ Cardinality(CnQueued) < CnPoolSize
    /\ cnUnit' = [cnUnit EXCEPT ![idx] = "queued"]
    /\ idx' = idx + 1
    /\ cnpc' = IF idx + 1 > cnN THEN "stop" ELSE "loop"
    /\ UNCHANGED <<cnN, cnCPU, nodes, cnPoolErr, cnRet>>
    /\ UNCHANGED notConn

\* queue(idx, nb) != nil: break
ConnectBreak ==
    /\ cnpc = "loop"
    /\ idx <= cnN
    /\ cnPoolErr # 0
    /\ cnpc' = "stop"
    /\ UNCHANGED <<cnN, cnCPU, idx, cnUnit, nodes, cnPoolErr, cnRet>>
    /\ UNCHANGED notConn

\* a worker of the pool takes the oldest accepted unit and calls connect
ConnectWorkerTake ==
    /\ CnQueued # {}
    /\ Cardinality(CnRunning) < CnPoolSize
    /\ LET n == CHOOSE m \in CnQueued : \A k \in CnQueued : m <= k
       IN  cnUnit' = [cnUnit EXCEPT ![n] = "run"]
    /\ UNCHANGED <<cnN, cnCPU, cnpc, idx, nodes, cnPoolErr, cnRet>>
    /\ UNCHANGED notConn

\* connect storing the connection under the index the range loop is at
ConnectSharedIndex ==
    \E n \in CnRunning : \E ok \in BOOLEAN :
        /\ nodes' = [nodes EXCEPT ![Min(idx, cnN)] = IF ok THEN n ELSE 0]
        /\ cnUnit' = [cnUnit EXCEPT ![n] = IF ok THEN "done" ELSE "failed"]
        /\ cnPoolErr' = IF ok \/ cnPoolErr # 0 THEN cnPoolErr ELSE n
        /\ UNCHANGED <<cnN, cnCPU, cnpc, idx, cnRet>>
        /\ UNCHANGED notConn

\* nodes[idx], err = NewNode(config, nb); if err != nil { return err }: with
\* idx and nb the parameters of connect. NewNode returns the connection to
\* nb, or nil and an error, which the pool records
Connect ==
    \E n \in CnRunning : \E ok \in BOOLEAN :
        /\ nodes' = [nodes EXCEPT ![n] = IF ok THEN n ELSE 0]
        /\ cnUnit' = [cnUnit EXCEPT ![n] = IF ok THEN "done" ELSE "failed"]
        /\ cnPoolErr' = IF ok \/ cnPoolErr # 0 THEN cnPoolErr ELSE n
        /\ UNCHANGED <<cnN, cnCPU, cnpc, idx, cnRet>>
        /\ UNCHANGED notConn

\* err := pool.Stop(); if err != nil { return nil, errors.Wrap(...) };
\* return &Cluster{blueprint: blueprint, nodes: nodes}, nil
ConnectStop ==
    /\ cnpc = "stop"
    /\ CnQueued = {} /\ CnRunning = {}
    /\ cnpc' = "ret"
    /\ cnRet' = IF cnPoolErr = 0 THEN "cluster" ELSE "error"
    /\ UNCHANGED <<cnN, cnCPU, idx, cnUnit, nodes, cnPoolErr>>
    /\ UNCHANGED notConn

KNext ==
    \/ ConnectQueue \/ ConnectBreak \/ ConnectWorkerTake \/ Connect
    \/ ConnectStop

SpecConnect == KInit /\ [][KNext]_vars

\* C34: a unit writes only the element of its own index; when NewCluster
\* returns a cluster, nodes has one element per configured host, none is nil
\* and nodes[i] is the connection to host i, the leader being the first host;
\* when a connection failed NewCluster returns an error and no cluster.
C34_NodesFollowBlueprint ==
    /\ \A i \in Hosts : nodes[i] \in {0, i}
    /\ (cnRet = "cluster") =>
          /\ DOMAIN nodes = Hosts
          /\ \A i \in Hosts : nodes[i] = i
    /\ (cnpc = "ret" /\ \E i \in Hosts : cnUnit[i] = "failed") =>
          cnRet = "error"

C34_Witness ==
    /\ cnRet = "cluster"
    /\ cnN = 3 /\ cnCPU = 2
    /\ nodes = [i \in Hosts |-> i]

----------------------------------------------------------------------------
(* The report of cmd.benchmark, checked under SpecBench *)

\* C35: the benchmark loop returns without error only with at least one
\* result; the report is built from a non-empty result sequence, so
\* NewOverview divides by a count of at least one and never panics, and the
\* rundown has one row per result, in the order of the results.
C35_ReportHasResults ==
    /\ (bRet.kind = "ret" /\ bRet.err = "nil") => Len(bRet.results) >= 1
    /\ cmdRet # "integer divide by zero"
    /\ report.built =>
          /\ report.count >= 1
          /\ report.count = Len(report.results)
          /\ Len(report.rundown) = Len(report.results)
          /\ \A i \in 1..Len(report.results) :
                report.rundown[i].of = report.results[i]

C35_Witness ==
    /\ report.built
    /\ Iterations = 0
    /\ report.count = 1
    /\ report.rundown = <<[of |-> 1]>>

\* the signal was set before the first iteration was entered
CancelledBeforeLoop == ctxErr /\ cancelAt.started = 0

\* C36: with the signal set before the first iteration is entered, the first
\* iteration is entered all the same and runs every one of its steps; when no
\* step fails the call returns exactly one result and no second iteration
\* was entered.
C36_CancelBeforeLoopRunsOnce ==
    CancelledBeforeLoop =>
        /\ started <= 1
        /\ (bpc = "ctxCheck") => (bSteps = IterationSteps /\ started = 1)
        /\ (bRet.kind = "ret" /\ bRet.err = "nil") =>
              /\ bRet.results = UpTo(1)
              /\ started = 1
              /\ bSteps = IterationSteps

C36_Witness ==
    /\ CancelledBeforeLoop
    /\ cancelAt.pc = "loop"
    /\ Iterations = 3
    /\ bKind = "restore"
    /\ bRet.kind = "ret" /\ bRet.err = "nil"
    /\ bRet.results = <<1>>

----------------------------------------------------------------------------
(* The number of evaluations of the predicate, checked under SpecPoll *)

\* C37: during one call of poll the predicate is evaluated at most
\* floor(timeout / interval) times, one evaluation at a time and none after
\* poll has returned; with a timeout shorter than the interval it is never
\* evaluated and poll returns (true, nil).
C37_AtMostFloorEvaluations ==
    /\ evals <= pTimeout \div PollInterval
    /\ pRet.set => ppc # "eval"
    /\ (pTimeout < PollInterval) =>
          /\ evals = 0
          /\ pRet.set => (pRet.timedOut /\ pRet.err = "nil")

----------------------------------------------------------------------------
(* Cluster.downloadLogs and the list CollectLogs returns: for every path a *)
(* fan-out over the nodes, each unit downloading the archive if its node   *)
(* has it.                                                                 *)

LogNodes == 1..lgN
LogPaths == 1..logPaths

\* hofp.Options{Size: maths.Min(system.NumCPU(), len(c.nodes))}
LgPoolSize == Min(lgCPU, lgN)

LgQueued == {n \in LogNodes : lgUnit[n] = "queued"}
LgRunning == {n \in LogNodes : lgUnit[n] = "run"}

\* collectionPaths returned: strings.Split gives at least one path; an
\* archive is on any of the nodes, or on none
GInit ==
    /\ TrimIdle
    /\ BenchIdle
    /\ ClusterIdle
    /\ LoadIdle
    /\ PollIdle
    /\ RateIdle
    /\ ProvIdle
    /\ NodeIdle
    /\ TaskIdle
    /\ CmdIdle
    /\ ConnIdle
    /\ lgN \in 1..MaxLogNodes
    /\ lgCPU \in 1..MaxLogNodes
    /\ logPaths \in 1..MaxPaths
    /\ existsOn \in [LogPaths -> SUBSET LogNodes]
    /\ lgpc = "call"
    /\ source = 1
    /\ lgfi = 1
    /\ lgUnit = [n \in LogNodes |-> "none"]
    /\ lgPoolErr = 0
    /\ sink = {}
    /\ converted = <<>>
    /\ lgRet = "running"

\* for _, source := range logPaths { err := c.forEachNode(...) }: a new pool
\* for the path
LogsForEachNodeCall ==
    /\ lgpc = "call"
    /\ lgpc' = "loop"
    /\ lgfi' = 1
    /\ lgUnit' = [n \in LogNodes |-> "none"]
    /\ lgPoolErr' = 0
    /\ UNCHANGED <<lgN, lgCPU, logPaths, existsOn, source, sink, converted,
                   lgRet>>
    /\ UNCHANGED notLog

\* forEachNode: the unit of the next node is accepted
LogsQueue ==
    /\ lgpc = "loop"
    /\ lgfi <= lgN
    /\ lgPoolErr = 0
    /\ Cardinality(LgQueued) < LgPoolSize
    /\ lgUnit' = [lgUnit EXCEPT ![lgfi] = "queued"]
    /\ lgfi' = lgfi + 1
    /\ lgpc' = IF lgfi + 1 > lgN THEN "stop" ELSE "loop"
    /\ UNCHANGED <<lgN, lgCPU, logPaths, existsOn, source, lgPoolErr, sink,
                   converted, lgRet>>
    /\ UNCHANGED notLog

\* forEachNode: queue(node) != nil: break
LogsBreak ==
    /\ lgpc = "loop"
    /\ lgfi <= lgN
    /\ lgPoolErr # 0
    /\ lgpc' = "stop"
    /\ UNCHANGED <<lgN, lgCPU, logPaths, existsOn, source, lgfi, lgUnit,
                   lgPoolErr, sink, converted, lgRet>>
    /\ UNCHANGED notLog

\* a worker of the pool takes the oldest accepted unit and invokes it
LogsWorkerTake ==
    /\ LgQueued # {}
    /\ Cardinality(LgRunning) < LgPoolSize
    /\ LET n == CHOOSE m \in LgQueued : \A k \in LgQueued : m <= k
       IN  lgUnit' = [lgUnit EXCEPT ![n] = "run"]
    /\ UNCHANGED <<lgN, lgCPU, logPaths, existsOn, lgpc, source, lgfi,
                   lgPoolErr, sink, converted, lgRet>>
    /\ UNCHANGED notLog

\* the unit: if !node.client.FileExists(source) { return nil }; otherwise
\* return node.client.SecureDownload(source, sink)
LogsUnit ==
    \E n \in LgRunning : \E ok \in BOOLEAN :
        /\ IF n \notin existsOn[source]
           THEN /\ lgUnit' = [lgUnit EXCEPT ![n] = "done"]
                /\ UNCHANGED <<sink, lgPoolErr>>
           ELSE IF ok
                THEN /\ lgUnit' = [lgUnit EXCEPT ![n] = "done"]
                     /\ sink' = sink \cup {source}
                     /\ lgPoolErr' = lgPoolErr
                ELSE /\ lgUnit' = [lgUnit EXCEPT ![n] = "failed"]
                     /\ sink' = sink
                     /\ lgPoolErr' = IF lgPoolErr = 0 THEN n ELSE lgPoolErr
        /\ UNCHANGED <<lgN, lgCPU, logPaths, existsOn, lgpc, source, lgfi,
                       converted, lgRet>>
        /\ UNCHANGED notLog

\* forEachNode returns pool.Stop(). downloadLogs returns its error wrapped,
\* or goes on with the next path; after the last path CollectLogs converts
\* every path of paths and returns the list
LogsStop ==
    /\ lgpc = "stop"
    /\ LgQueued = {} /\ LgRunning = {}
    /\ IF lgPoolErr # 0
       THEN /\ lgpc' = "ret"
            /\ lgRet' = "failed to download logs"
            /\ UNCHANGED <<source, converted>>
       ELSE IF source < logPaths
            THEN /\ lgpc' = "call"
                 /\ source' = source + 1
                 /\ UNCHANGED <<converted, lgRet>>
            ELSE /\ lgpc' = "ret"
                 /\ converted' = [p \in LogPaths |-> p]
                 /\ lgRet' = "nil"
                 /\ source' = source
    /\ UNCHANGED <<lgN, lgCPU, logPaths, existsOn, lgfi, lgUnit, lgPoolErr,
                   sink>>
    /\ UNCHANGED notLog

GNext ==
    \/ LogsForEachNodeCall \/ LogsQueue \/ LogsBreak \/ LogsWorkerTake
    \/ LogsUnit \/ LogsStop

SpecLogs == GInit /\ [][GNext]_vars

\* C38: when CollectLogs returns a list without error, the archive of every
\* path of the list existed on at least one node and was downloaded into the
\* destination directory.
C38_ReturnedPathsWereDownloaded ==
    (lgRet = "nil") =>
        \A i \in 1..Len(converted) :
            /\ existsOn[converted[i]] # {}
            /\ converted[i] \in sink

----------------------------------------------------------------------------
(* ssh.trimPort *)

\* the characters of an address: the colon, a letter and a digit
AddrChars == {":", "h", "1"}

\* strings.Index(s, ":"): the first position of the colon counted from 0, or
\* -1 when s has none
Index(s) ==
    IF \E i \in 1..Len(s) : s[i] = ":"
    THEN (CHOOSE i \in 1..Len(s) :
              s[i] = ":" /\ \A j \in 1..(i - 1) : s[j] # ":") - 1
    ELSE -1

\* if index := strings.Index(s, ":"); index != 0 { return s[:index] };
\* return s. The slice expression s[:index] panics for an index below 0
trimPort(s) ==
    LET index == Index(s)
    IN  IF index # 0
        THEN IF index < 0
             THEN [kind |-> "panic", value |-> <<>>]
             ELSE [kind |-> "ret", value |-> SubSeq(s, 1, index)]
        ELSE [kind |-> "ret", value |-> s]

UInit ==
    /\ BenchIdle
    /\ ClusterIdle
    /\ LoadIdle
    /\ PollIdle
    /\ RateIdle
    /\ ProvIdle
    /\ NodeIdle
    /\ TaskIdle
    /\ CmdIdle
    /\ ConnIdle
    /\ LogIdle
    /\ addr \in Strings(AddrChars, MaxHostLen)
    /\ trpc = "call"
    /\ trRet = [kind |-> "ret", value |-> <<>>]

\* trimPort(s) is called
TrimPortCall ==
    /\ trpc = "call"
    /\ trRet' = trimPort(addr)
    /\ trpc' = "ret"
    /\ UNCHANGED addr
    /\ UNCHANGED notTrim

UNext == TrimPortCall

SpecTrim == UInit /\ [][UNext]_vars

\* C39: for an input host:port, with a host that is not empty, trimPort
\* returns the host; for an input without a colon it returns the input as it
\* is, and it does not panic.
C39_TrimPortKeepsPortlessHost ==
    (trpc = "ret") =>
        /\ (Index(addr) > 0) =>
              (trRet.kind = "ret" /\ trRet.value = SubSeq(addr, 1, Index(addr)))
        /\ (Index(addr) = -1) =>
              (trRet.kind = "ret" /\ trRet.value = addr)

====
